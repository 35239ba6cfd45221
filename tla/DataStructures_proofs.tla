------------------------- MODULE DataStructures_proofs -------------------------
(***************************************************************************)
(* A DMF_RingBuffer of any size implements a queue. A DMF_HashTable of any *)
(* size, with any hash function, loses no key and holds none twice, and    *)
(* implements a table from keys to values. A DMF_PingPongBuffer of any     *)
(* size implements a stream of packets.                                    *)
(***************************************************************************)
EXTENDS RingBufferMethods, SequenceTheorems, TLAPS

\* Of the hash table and of the two buffers.
CONSTANTS Keys, TableValues, Empty, HashCalculate, DataTableSize,
          Bytes, ZeroByte, BufferSize

VARIABLES HashMap, DataTable, method, Key, Value, entryIndex, currentEntry, answer,
          Buffer, PingBufferIndex, BufferOffsetWrite, packet, size

Hash == INSTANCE HashTable WITH Values <- TableValues
Pair == INSTANCE PingPongBuffer WITH Zero <- ZeroByte

-----------------------------------------------------------------------------
(* The ring buffer.                                                         *)

\* Between two Methods the pointers and the count describe the same items.
RingInv == Items \in [Places -> Values] /\ PointersAgree

-----------------------------------------------------------------------------
(* The arithmetic of the circle.                                            *)

\* The place that n steps reach, at most once round, is a place.
LEMMA AfterIsPlace ==
    ASSUME RingInv, NEW n \in 0 .. ItemCount
    PROVE  After(n) \in Places
BY RingAssumption DEF RingInv, PointersAgree, Places, After, BufferEnd

\* Less than once round, different numbers of steps reach different places.
LEMMA AfterIsInjective ==
    ASSUME RingInv, NEW m \in 0 .. ItemCount - 1, NEW n \in 0 .. ItemCount - 1,
           After(m) = After(n)
    PROVE  m = n
BY RingAssumption DEF RingInv, PointersAgree, Places, After, BufferEnd

\* One step more.
LEMMA AfterIncrements ==
    ASSUME RingInv, NEW n \in 0 .. ItemCount - 1
    PROVE  After(n + 1) = Increment(After(n))
BY RingAssumption DEF RingInv, PointersAgree, Places, After, Increment, BufferEnd

\* The items present are a sequence as long as the count says.
LEMMA ContentsIsSeq ==
    ASSUME RingInv
    PROVE  /\ Contents \in Seq(Values)
           /\ Len(Contents) = ItemsPresentCount
           /\ \A n \in 1 .. ItemsPresentCount : Contents[n] = Items[After(n - 1)]
<1>1. ItemsPresentCount \in Nat
  BY RingAssumption DEF RingInv, PointersAgree
<1>2. \A n \in 1 .. ItemsPresentCount : Items[After(n - 1)] \in Values
  <2>1. SUFFICES ASSUME NEW n \in 1 .. ItemsPresentCount PROVE Items[After(n - 1)] \in Values
    OBVIOUS
  <2>2. n - 1 \in 0 .. ItemCount
    BY RingAssumption DEF RingInv, PointersAgree
  <2>3. After(n - 1) \in Places
    BY <2>2, AfterIsPlace
  <2> QED BY <2>3 DEF RingInv
<1>3. Contents \in Seq(Values)
  BY <1>1, <1>2 DEF Contents
<1> QED BY <1>1, <1>3 DEF Contents

\* The loop of DMF_RingBuffer_Enumerate visits what is present, also when the
\* ring is full and its pointer starts where it ends.
LEMMA VisitsAll ==
    ASSUME RingInv
    PROVE  Visits = ItemsPresentCount
BY RingAssumption DEF RingInv, PointersAgree, Places, Visits, After, BufferEnd

-----------------------------------------------------------------------------
(* The invariant.                                                           *)

LEMMA RingInitInv ==
    ASSUME Init
    PROVE  RingInv
BY RingAssumption DEF Init, RingInit, RingInv, PointersAgree, Places, After, BufferEnd

LEMMA RingNextInv ==
    ASSUME RingInv, [Next]_vars
    PROVE  RingInv'
<1> USE RingAssumption DEF RingInv, PointersAgree, Places, After, BufferEnd, Increment
<1>1. ASSUME NEW v \in Values, Write(v) PROVE RingInv'
  BY <1>1 DEF Write, Put, IsFull
<1>2. ASSUME NEW v \in Values, WriteOverOldest(v) PROVE RingInv'
  BY <1>2 DEF WriteOverOldest, Put, IsFull
<1>3. ASSUME Read PROVE RingInv'
  BY <1>3 DEF Read
<1>4. ASSUME ReadAll PROVE RingInv'
  BY <1>4 DEF ReadAll
<1>5. ASSUME Reorder PROVE RingInv'
  <2>1. Items' \in [Places -> Values]
    <3>1. \A i \in Places : i < ItemsPresentCount => After(i) \in Places
      OBVIOUS
    <3> QED BY <1>5, <3>1 DEF Reorder
  <2>2. PointersAgree'
    BY <1>5 DEF Reorder, IsFull
  <2> QED BY <2>1, <2>2
<1>6. ASSUME UNCHANGED ringVars PROVE RingInv'
  BY <1>6 DEF ringVars
<1> QED BY <1>1, <1>2, <1>3, <1>4, <1>5, <1>6
        DEF Next, vars, CallWrite, CallRead, CallReadAll, CallEnumerate, CallReorder

\* The pointers and the count always describe the same items.
THEOREM PointersAlwaysAgree == Spec => []PointersAgree
<1>1. Init => RingInv
  BY RingInitInv
<1>2. RingInv /\ [Next]_vars => RingInv'
  BY RingNextInv
<1>3. RingInv => PointersAgree
  BY DEF RingInv
<1> QED BY <1>1, <1>2, <1>3, PTL DEF Spec

-----------------------------------------------------------------------------
(* The refinement, one Method at a time.                                    *)

\* A function on the places of a sequence that has its elements is the sequence.
LEMMA SeqByElements ==
    ASSUME NEW S, NEW q \in Seq(S), NEW f,
           f = [n \in 1 .. Len(q) |-> f[n]],
           \A n \in 1 .. Len(q) : f[n] = q[n]
    PROVE  f = q
<1>1. q = [n \in 1 .. Len(q) |-> q[n]]
  OBVIOUS
<1>2. [n \in 1 .. Len(q) |-> f[n]] = [n \in 1 .. Len(q) |-> q[n]]
  OBVIOUS
<1> QED BY <1>1, <1>2

\* What a step that touches Items or the pointers makes of the contents.
LEMMA ContentsBecomes ==
    ASSUME NEW q \in Seq(Values), ItemsPresentCount' = Len(q),
           \A n \in 1 .. Len(q) : Items'[After(n - 1)'] = q[n]
    PROVE  Contents' = q
<1>1. Contents' = [n \in 1 .. Len(q) |-> Items'[After(n - 1)']]
  BY DEF Contents
<1>2. Contents' = [n \in 1 .. Len(q) |-> Contents'[n]] /\ \A n \in 1 .. Len(q) : Contents'[n] = q[n]
  BY <1>1
<1> QED BY <1>2, SeqByElements

\* An item written behind those present changes none of them.
LEMMA PutBehind ==
    ASSUME RingInv, NEW v \in Values, Put(v), NEW n \in 0 .. ItemCount - 1,
           After(n) # WritePointer
    PROVE  Items'[After(n)] = Items[After(n)]
<1>1. After(n) \in Places
  BY AfterIsPlace, RingAssumption
<1> QED BY <1>1 DEF Put, RingInv

\* A write with room appends.
LEMMA WriteAppends ==
    ASSUME RingInv, NEW v \in Values, CallWrite(v), Write(v)
    PROVE  Queue!Write(v)
<1>1. /\ ItemsPresentCount \in 0 .. ItemCount - 1
      /\ ItemsPresentCount' = ItemsPresentCount + 1
      /\ ReadPointer' = ReadPointer /\ target' = target
      /\ Put(v)
  BY RingAssumption DEF CallWrite, Write, IsFull, RingInv, PointersAgree
<1>2. \A n \in 0 .. ItemCount : After(n)' = After(n)
  BY <1>1 DEF After
<1>3. /\ Contents \in Seq(Values) /\ Len(Contents) = ItemsPresentCount
      /\ \A n \in 1 .. ItemsPresentCount : Contents[n] = Items[After(n - 1)]
  BY ContentsIsSeq
<1> DEFINE q == Append(Contents, v)
<1>4. /\ q \in Seq(Values) /\ Len(q) = ItemsPresentCount + 1
      /\ \A n \in 1 .. ItemsPresentCount : q[n] = Contents[n]
      /\ q[ItemsPresentCount + 1] = v
  BY <1>1, <1>3
<1> HIDE DEF q
<1>5. ASSUME NEW n \in 1 .. ItemsPresentCount + 1
      PROVE  Items'[After(n - 1)'] = q[n]
  <2>1. n - 1 \in 0 .. ItemCount - 1 /\ After(n - 1)' = After(n - 1)
    BY <1>1, <1>2, RingAssumption
  <2>2. CASE n = ItemsPresentCount + 1
    <3>1. After(n - 1) = WritePointer /\ WritePointer \in Places
      BY <1>1, <2>2 DEF RingInv, PointersAgree
    <3> QED BY <1>1, <1>4, <2>1, <2>2, <3>1 DEF RingInv, Put
  <2>3. CASE n \in 1 .. ItemsPresentCount
    <3>1. After(n - 1) # After(ItemsPresentCount)
      BY <1>1, <2>1, <2>3, AfterIsInjective
    <3>2. After(n - 1) # WritePointer
      BY <3>1 DEF RingInv, PointersAgree
    <3>3. Items'[After(n - 1)] = Items[After(n - 1)]
      BY <1>1, <2>1, <3>2, PutBehind
    <3> QED BY <1>3, <1>4, <2>1, <2>3, <3>3
  <2> QED BY <1>1, <2>2, <2>3, RingAssumption
<1>6. Contents' = q
  BY <1>1, <1>4, <1>5, ContentsBecomes
<1> QED BY <1>1, <1>3, <1>6, RingAssumption DEF Queue!Write, q

\* A write into the full ring takes the place of the oldest item.
LEMMA WriteReplacesOldest ==
    ASSUME RingInv, NEW v \in Values, CallWrite(v), WriteOverOldest(v)
    PROVE  Queue!WriteOverOldest(v)
<1>1. /\ ItemsPresentCount = ItemCount /\ ItemsPresentCount' = ItemCount
      /\ ReadPointer' = Increment(ReadPointer) /\ target' = target
      /\ Put(v) /\ Mode = "DeleteOldestIfFullOnWrite"
      /\ WritePointer = ReadPointer /\ ReadPointer = After(0)
  BY RingAssumption DEF CallWrite, WriteOverOldest, IsFull, RingInv, PointersAgree, After,
                        BufferEnd, Places
<1>2. \A n \in 0 .. ItemCount - 2 : After(n)' = After(n + 1)
  BY <1>1, RingAssumption DEF After, Increment, BufferEnd, RingInv, PointersAgree, Places
<1>3. After(ItemCount - 1)' = ReadPointer
  BY <1>1, RingAssumption DEF After, Increment, BufferEnd, RingInv, PointersAgree, Places
<1>4. /\ Contents \in Seq(Values) /\ Len(Contents) = ItemCount
      /\ \A n \in 1 .. ItemCount : Contents[n] = Items[After(n - 1)]
  BY <1>1, ContentsIsSeq
<1> DEFINE q == Append(Tail(Contents), v)
<1>5. /\ q \in Seq(Values) /\ Len(q) = ItemCount
      /\ \A n \in 1 .. ItemCount - 1 : q[n] = Contents[n + 1]
      /\ q[ItemCount] = v
  BY <1>4, RingAssumption
<1> HIDE DEF q
<1>6. ASSUME NEW n \in 1 .. ItemCount
      PROVE  Items'[After(n - 1)'] = q[n]
  <2>1. CASE n = ItemCount
    BY <1>1, <1>3, <1>5, <2>1 DEF Put, RingInv, PointersAgree
  <2>2. CASE n \in 1 .. ItemCount - 1
    <3>1. /\ n - 1 \in 0 .. ItemCount - 2 /\ n \in 0 .. ItemCount - 1
          /\ 0 \in 0 .. ItemCount - 1 /\ n # 0
      BY <2>2, RingAssumption
    <3>2. After(n - 1)' = After(n)
      BY <1>2, <3>1
    <3>3. After(n) # After(0)
      BY <3>1, AfterIsInjective
    <3>4. Items'[After(n)] = Items[After(n)]
      BY <1>1, <3>1, <3>3, PutBehind
    <3>5. Contents[n + 1] = Items[After(n)]
      BY <1>4, <2>2, RingAssumption
    <3> QED BY <1>5, <2>2, <3>2, <3>4, <3>5
  <2> QED BY <2>1, <2>2, RingAssumption
<1>7. Contents' = q
  BY <1>1, <1>5, <1>6, ContentsBecomes
<1> QED BY <1>1, <1>4, <1>7 DEF Queue!WriteOverOldest, q

\* A read takes the oldest item.
LEMMA ReadTakesOldest ==
    ASSUME RingInv, CallRead
    PROVE  Queue!Read
<1>1. /\ ItemsPresentCount \in 1 .. ItemCount /\ ItemsPresentCount' = ItemsPresentCount - 1
      /\ ReadPointer' = Increment(ReadPointer) /\ Items' = Items
      /\ target' = <<Items[ReadPointer]>> /\ ReadPointer = After(0)
  BY RingAssumption DEF CallRead, Read, RingInv, PointersAgree, After, BufferEnd, Places
<1>2. \A n \in 0 .. ItemCount - 2 : After(n)' = After(n + 1)
  BY <1>1, RingAssumption DEF After, Increment, BufferEnd, RingInv, PointersAgree, Places
<1>3. /\ Contents \in Seq(Values) /\ Len(Contents) = ItemsPresentCount
      /\ \A n \in 1 .. ItemsPresentCount : Contents[n] = Items[After(n - 1)]
  BY ContentsIsSeq
<1>4. Contents # <<>> /\ Head(Contents) = Items[ReadPointer]
  BY <1>1, <1>3
<1> DEFINE q == Tail(Contents)
<1>5. /\ q \in Seq(Values) /\ Len(q) = ItemsPresentCount'
      /\ \A n \in 1 .. Len(q) : q[n] = Contents[n + 1]
  BY <1>1, <1>3
<1> HIDE DEF q
<1>6. ASSUME NEW n \in 1 .. Len(q)
      PROVE  Items'[After(n - 1)'] = q[n]
  <2>1. n - 1 \in 0 .. ItemCount - 2 /\ n + 1 \in 1 .. ItemsPresentCount
    BY <1>1, <1>5, RingAssumption
  <2>2. After(n - 1)' = After(n)
    BY <1>2, <2>1
  <2> QED BY <1>1, <1>3, <1>5, <2>1, <2>2
<1>7. Contents' = q
  BY <1>5, <1>6, ContentsBecomes
<1> QED BY <1>1, <1>4, <1>7 DEF Queue!Read, q

\* DMF_RingBuffer_ReadAll takes everything, the oldest first.
LEMMA ReadAllTakesAll ==
    ASSUME RingInv, CallReadAll
    PROVE  Queue!ReadAll
<1>1. ItemsPresentCount' = 0 /\ target' = Contents
  BY DEF CallReadAll, ReadAll, Contents
<1>2. Contents' = <<>>
  BY <1>1 DEF Contents
<1> QED BY <1>1, <1>2 DEF Queue!ReadAll

\* Items and pointers that stay keep the contents.
LEMMA ContentsStays ==
    ASSUME UNCHANGED ringVars
    PROVE  Contents' = Contents
BY DEF ringVars, Contents, After

\* DMF_RingBuffer_Enumerate shows what is present, oldest first.
LEMMA EnumerateShowsAll ==
    ASSUME RingInv, CallEnumerate
    PROVE  Queue!Enumerate
<1>1. Enumerated = Contents
  BY VisitsAll DEF Enumerated, Contents
<1> QED BY <1>1, ContentsStays DEF CallEnumerate, Queue!Enumerate

\* DMF_RingBuffer_Reorder moves the items, not their order.
LEMMA ReorderKeepsOrder ==
    ASSUME RingInv, CallReorder
    PROVE  Contents' = Contents /\ target' = target
<1>1. /\ ItemsPresentCount' = ItemsPresentCount /\ target' = target
      /\ ItemsPresentCount \in 0 .. ItemCount
      /\ Items' = [i \in Places |-> IF i < ItemsPresentCount THEN Items[After(i)] ELSE Zero]
      /\ ItemsPresentCount # 0 => ReadPointer' = 0
  BY RingAssumption DEF CallReorder, Reorder, RingInv, PointersAgree
<1>2. /\ Contents \in Seq(Values) /\ Len(Contents) = ItemsPresentCount
      /\ \A n \in 1 .. ItemsPresentCount : Contents[n] = Items[After(n - 1)]
  BY ContentsIsSeq
<1>3. ASSUME NEW n \in 1 .. ItemsPresentCount
      PROVE  Items'[After(n - 1)'] = Contents[n]
  <2>1. n - 1 \in Places /\ n - 1 < ItemsPresentCount /\ ItemsPresentCount # 0
    BY <1>1, RingAssumption DEF Places
  <2>2. After(n - 1)' = n - 1
    BY <1>1, <2>1, RingAssumption DEF After, BufferEnd, Places
  <2> QED BY <1>1, <1>2, <2>1, <2>2
<1>4. Contents' = Contents
  BY <1>1, <1>2, <1>3, ContentsBecomes
<1> QED BY <1>1, <1>4

\* Every Method called in any order: a DMF_RingBuffer of any size, in either
\* mode, is a queue. No Method loses an item, repeats it or changes the order,
\* and Enumerate and Reorder change nothing.
THEOREM RingBufferIsQueue == Spec => ImplementsQueue
<1>1. Init => Queue!Init
  BY DEF Init, RingInit, Queue!Init, Contents
<1>2. RingInv /\ [Next]_vars => [Queue!Next]_<<Contents, target>>
  <2> SUFFICES ASSUME RingInv, [Next]_vars
               PROVE  [Queue!Next]_<<Contents, target>>
    OBVIOUS
  <2>1. ASSUME NEW v \in Values, CallWrite(v) PROVE Queue!Next
    BY <2>1, WriteAppends, WriteReplacesOldest DEF CallWrite, Queue!Next
  <2>2. CASE CallRead
    BY <2>2, ReadTakesOldest DEF Queue!Next
  <2>3. CASE CallReadAll
    BY <2>3, ReadAllTakesAll DEF Queue!Next
  <2>4. CASE CallEnumerate
    BY <2>4, EnumerateShowsAll DEF Queue!Next
  <2>5. CASE CallReorder
    BY <2>5, ReorderKeepsOrder
  <2>6. CASE UNCHANGED vars
    BY <2>6, ContentsStays DEF vars
  <2> QED BY <2>1, <2>2, <2>3, <2>4, <2>5, <2>6 DEF Next
<1>3. Init => RingInv
  BY RingInitInv
<1>4. RingInv /\ [Next]_vars => RingInv'
  BY RingNextInv
<1> QED BY <1>1, <1>2, <1>3, <1>4, PTL DEF Spec, ImplementsQueue, Queue!Spec

-----------------------------------------------------------------------------
(* The hash table.                                                          *)

\* The Module's configuration: a table of at least one entry, and a function of
\* the key alone as the hash.
TableAssumption ==
    /\ DataTableSize \in Nat \ {0}
    /\ HashCalculate \in [Keys -> Nat]
    /\ Empty \in TableValues

TableInv == Hash!TypeOK /\ Hash!ChainsAreComplete /\ Hash!SearchMissesNothing /\ Hash!KeysAreUnique

-----------------------------------------------------------------------------
(* Entries and buckets.                                                     *)

\* A hash is the number of a bucket.
LEMMA HashIsBucket ==
    ASSUME TableAssumption, NEW k \in Keys
    PROVE  Hash!hash(k) \in Hash!Buckets
<1>1. HashCalculate[k] \in Nat /\ Hash!HashMapSize \in Nat /\ Hash!HashMapSize > 0
  BY DEF TableAssumption, Hash!HashMapSize
<1> QED BY <1>1 DEF Hash!hash, Hash!Buckets

\* What an index of the table leads to.
LEMMA EntriesAreTyped ==
    ASSUME TableAssumption, Hash!TypeOK, NEW i \in Hash!Allocated
    PROVE  /\ i \in Nat /\ i # Hash!INVALID_INDEX
           /\ DataTable[i].key \in Keys
           /\ DataTable[i].value \in TableValues
           /\ DataTable[i].NextEntryIndex \in 0 .. DataTableSize
           /\ Hash!hashOf(i) \in Hash!Buckets
<1>1. DataTable[i] \in Hash!Entry
  BY DEF Hash!TypeOK, Hash!Allocated
<1>2. i \in Nat /\ i # Hash!INVALID_INDEX
  BY DEF Hash!TypeOK, Hash!Allocated, Hash!INVALID_INDEX
<1> QED BY <1>1, <1>2, HashIsBucket DEF Hash!Entry, Hash!hashOf

-----------------------------------------------------------------------------
(* The invariant, one action at a time.                                     *)

LEMMA TableInitInv ==
    ASSUME TableAssumption, Hash!Init
    PROVE  TableInv
<1>1. Hash!Allocated = {}
  BY DEF Hash!Init, Hash!Allocated
<1>2. Hash!HashMapSize \in Nat
  BY DEF TableAssumption, Hash!HashMapSize
<1> QED BY <1>1, <1>2 DEF TableAssumption, Hash!Init, TableInv, Hash!TypeOK, Hash!ChainsAreComplete,
             Hash!SearchMissesNothing, Hash!KeysAreUnique, Hash!INVALID_INDEX, Hash!Lookups

\* A step that leaves the tables alone keeps what is said of them.
LEMMA TablesUnchanged ==
    ASSUME TableInv, UNCHANGED Hash!tables
    PROVE  Hash!ChainsAreComplete' /\ Hash!KeysAreUnique'
BY DEF TableInv, Hash!tables, Hash!ChainsAreComplete, Hash!KeysAreUnique, Hash!Allocated,
       Hash!hashOf, Hash!hash

\* A Method that returns leaves no search behind.
LEMMA ReturnEndsSearch ==
    ASSUME method' \notin Hash!Lookups
    PROVE  Hash!SearchMissesNothing'
BY DEF Hash!SearchMissesNothing

LEMMA LookupInv ==
    ASSUME TableAssumption, TableInv,
           NEW m \in Hash!Lookups, NEW k \in Keys, NEW v \in TableValues, Hash!Lookup(m, k, v)
    PROVE  TableInv'
<1> USE DEF TableInv
<1>1. Hash!hash(k) \in Hash!Buckets
  BY HashIsBucket
<1>2. Hash!TypeOK'
  BY <1>1 DEF Hash!TypeOK, Hash!Lookup, Hash!Lookups, Hash!tables, Hash!INVALID_INDEX,
              TableAssumption
<1>3. Hash!SearchMissesNothing'
  <2>1. HashMap[Hash!hash(k)] # Hash!INVALID_INDEX =>
            /\ HashMap[Hash!hash(k)] \in Hash!Allocated
            /\ Hash!hashOf(HashMap[Hash!hash(k)]) = Hash!hash(k)
    BY <1>1 DEF Hash!ChainsAreComplete
  <2>2. \A i \in Hash!Allocated : DataTable[i].key = k =>
            HashMap[Hash!hash(k)] # Hash!INVALID_INDEX /\ HashMap[Hash!hash(k)] <= i
    BY <1>1 DEF Hash!ChainsAreComplete, Hash!hashOf
  <2> QED BY <2>1, <2>2 DEF Hash!SearchMissesNothing, Hash!Lookup, Hash!tables, Hash!Allocated,
                            Hash!hashOf, Hash!hash
<1>4. Hash!ChainsAreComplete' /\ Hash!KeysAreUnique'
  BY TablesUnchanged DEF Hash!Lookup
<1> QED BY <1>2, <1>3, <1>4

LEMMA SearchNextInv ==
    ASSUME TableAssumption, TableInv, Hash!SearchNext
    PROVE  TableInv'
<1> USE DEF TableInv
<1>1. /\ entryIndex \in Hash!Allocated /\ Hash!hashOf(entryIndex) = Hash!hash(Key)
      /\ DataTable[entryIndex].key # Key
  BY DEF Hash!SearchNext, Hash!SearchMissesNothing, Hash!IsFound
<1>2. /\ entryIndex \in 0 .. DataTableSize /\ entryIndex # Hash!INVALID_INDEX
      /\ DataTable[entryIndex].NextEntryIndex \in 0 .. DataTableSize
  BY <1>1, EntriesAreTyped DEF Hash!TypeOK, Hash!Allocated, TableAssumption
<1>3. Hash!TypeOK'
  BY <1>2 DEF Hash!TypeOK, Hash!SearchNext, Hash!Lookups, Hash!tables, TableAssumption
<1>4. Hash!SearchMissesNothing'
  <2> DEFINE next == DataTable[entryIndex].NextEntryIndex
  <2>1. next # Hash!INVALID_INDEX => next \in Hash!Allocated /\ Hash!hashOf(next) = Hash!hash(Key)
    BY <1>1 DEF Hash!ChainsAreComplete
  <2>2. ASSUME NEW i \in Hash!Allocated, DataTable[i].key = Key
        PROVE  next # Hash!INVALID_INDEX /\ next <= i
    <3>1. entryIndex <= i /\ i # entryIndex
      BY <1>1, <2>2 DEF Hash!SearchNext, Hash!SearchMissesNothing
    <3>2. i \in Nat /\ entryIndex \in Nat
      BY <1>1, <2>2, EntriesAreTyped
    <3>3. Hash!hashOf(i) = Hash!hashOf(entryIndex)
      BY <1>1, <2>2 DEF Hash!hashOf
    <3> QED BY <1>1, <2>2, <3>1, <3>2, <3>3 DEF Hash!ChainsAreComplete
  <2> QED BY <1>1, <1>2, <2>1, <2>2
          DEF Hash!SearchMissesNothing, Hash!SearchNext, Hash!tables, Hash!Allocated, Hash!hashOf,
              Hash!hash
<1>5. Hash!ChainsAreComplete' /\ Hash!KeysAreUnique'
  BY TablesUnchanged DEF Hash!SearchNext
<1> QED BY <1>3, <1>4, <1>5

LEMMA UpdateFoundInv ==
    ASSUME TableAssumption, TableInv, Hash!UpdateFound
    PROVE  TableInv'
<1> USE DEF TableInv
<1>1. entryIndex \in Hash!Allocated
  BY DEF Hash!UpdateFound, Hash!SearchMissesNothing, Hash!IsFound, Hash!Lookups
<1>2. Hash!Allocated' = Hash!Allocated /\ Len(DataTable') = Len(DataTable)
  BY <1>1 DEF Hash!UpdateFound, Hash!Allocated, Hash!TypeOK
<1>3. \A i \in Hash!Allocated :
          /\ DataTable'[i].key = DataTable[i].key
          /\ DataTable'[i].NextEntryIndex = DataTable[i].NextEntryIndex
  BY <1>1 DEF Hash!UpdateFound, Hash!DataEntry, Hash!TypeOK, Hash!Allocated
<1>4. Hash!TypeOK'
  <2>1. Hash!DataEntry(DataTable[entryIndex].key, Value, DataTable[entryIndex].NextEntryIndex)
            \in Hash!Entry
    BY <1>1, EntriesAreTyped DEF Hash!DataEntry, Hash!Entry, Hash!TypeOK
  <2>2. DataTable' \in Seq(Hash!Entry)
    BY <1>1, <2>1 DEF Hash!UpdateFound, Hash!TypeOK, Hash!Allocated
  <2> QED BY <1>2, <2>2 DEF Hash!TypeOK, Hash!UpdateFound, Hash!Return, Hash!search
<1>5. \A i \in Hash!Allocated : Hash!hashOf(i)' = Hash!hashOf(i)
  BY <1>3 DEF Hash!hashOf, Hash!hash
<1>6. Hash!ChainsAreComplete'
  <2>1. HashMap' = HashMap
    BY DEF Hash!UpdateFound
  <2> QED BY <1>2, <1>3, <1>5, <2>1 DEF Hash!ChainsAreComplete
<1>7. Hash!KeysAreUnique'
  BY <1>2, <1>3 DEF Hash!KeysAreUnique
<1>8. Hash!SearchMissesNothing'
  BY ReturnEndsSearch DEF Hash!UpdateFound, Hash!Return, Hash!Lookups
<1> QED BY <1>4, <1>6, <1>7, <1>8

\* What Allocate makes of the table: one entry more, at the end, and at most one
\* link that changes.
LEMMA AllocateAppends ==
    ASSUME TableAssumption, TableInv, Hash!Allocate
    PROVE  /\ DataTable' \in Seq(Hash!Entry) /\ Len(DataTable') = Len(DataTable) + 1
           /\ \A i \in Hash!Allocated :
                 /\ DataTable'[i].key = DataTable[i].key
                 /\ DataTable'[i].value = DataTable[i].value
                 /\ DataTable'[i].NextEntryIndex =
                       IF i = currentEntry THEN Len(DataTable) + 1
                       ELSE DataTable[i].NextEntryIndex
           /\ DataTable'[Len(DataTable) + 1] = Hash!NewEntry
           /\ Hash!NewEntry \in Hash!Entry
<1> DEFINE new == Len(DataTable) + 1
<1> USE DEF TableInv
<1>1. /\ Len(DataTable) \in Nat /\ new \in 0 .. DataTableSize
      /\ method \in Hash!Lookups
  BY DEF Hash!Allocate, Hash!TypeOK, TableAssumption, Hash!Lookups
<1>2. Hash!NewEntry \in Hash!Entry
  BY DEF Hash!NewEntry, Hash!DataEntry, Hash!Entry, Hash!TypeOK, Hash!INVALID_INDEX, TableAssumption
<1>3. CASE currentEntry = Hash!INVALID_INDEX
  <2>1. DataTable' = Append(DataTable, Hash!NewEntry)
    BY <1>3 DEF Hash!Allocate
  <2>2. \A i \in Hash!Allocated : i # currentEntry /\ DataTable'[i] = DataTable[i]
    BY <1>3, <2>1 DEF Hash!TypeOK, Hash!Allocated, Hash!INVALID_INDEX
  <2>3. /\ DataTable' \in Seq(Hash!Entry) /\ Len(DataTable') = Len(DataTable) + 1
        /\ DataTable'[Len(DataTable) + 1] = Hash!NewEntry
    BY <1>2, <2>1 DEF Hash!TypeOK
  <2> QED BY <1>2, <2>2, <2>3
<1>4. CASE currentEntry # Hash!INVALID_INDEX
  <2>1. currentEntry \in Hash!Allocated
    BY <1>1, <1>4 DEF Hash!SearchMissesNothing
  <2> DEFINE linked == Hash!Linked(currentEntry, new)
  <2>2. Hash!DataEntry(DataTable[currentEntry].key, DataTable[currentEntry].value, new)
            \in Hash!Entry
    BY <1>1, <2>1, EntriesAreTyped DEF Hash!DataEntry, Hash!Entry
  <2>3. linked \in Seq(Hash!Entry) /\ Len(linked) = Len(DataTable)
    BY <2>1, <2>2 DEF Hash!Linked, Hash!TypeOK, Hash!Allocated
  <2>4. \A i \in Hash!Allocated :
           linked[i] = IF i = currentEntry
                         THEN Hash!DataEntry(DataTable[i].key, DataTable[i].value, new)
                         ELSE DataTable[i]
    BY <2>1 DEF Hash!Linked, Hash!TypeOK, Hash!Allocated
  <2>5. DataTable' = Append(linked, Hash!NewEntry)
    BY <1>4 DEF Hash!Allocate
  <2> HIDE DEF linked, new
  <2>6. DataTable' \in Seq(Hash!Entry) /\ Len(DataTable') = Len(linked) + 1
    BY <1>2, <2>3, <2>5
  <2>7. DataTable'[Len(linked) + 1] = Hash!NewEntry
    BY <1>2, <2>3, <2>5
  <2>8. \A i \in Hash!Allocated : DataTable'[i] = linked[i]
    BY <1>2, <2>3, <2>5 DEF Hash!Allocated
  <2>9. \A i \in Hash!Allocated :
                 /\ DataTable'[i].key = DataTable[i].key
                 /\ DataTable'[i].value = DataTable[i].value
                 /\ DataTable'[i].NextEntryIndex =
                       IF i = currentEntry THEN new ELSE DataTable[i].NextEntryIndex
    <3>1. SUFFICES ASSUME NEW i \in Hash!Allocated
                   PROVE  /\ DataTable'[i].key = DataTable[i].key
                          /\ DataTable'[i].value = DataTable[i].value
                          /\ DataTable'[i].NextEntryIndex =
                               IF i = currentEntry THEN new ELSE DataTable[i].NextEntryIndex
      OBVIOUS
    <3>2. CASE i = currentEntry
      <4>1. DataTable'[i] = Hash!DataEntry(DataTable[i].key, DataTable[i].value, new)
        BY <2>4, <2>8, <3>2
      <4> QED BY <3>2, <4>1 DEF Hash!DataEntry
    <3>3. CASE i # currentEntry
      BY <2>4, <2>8, <3>3
    <3> QED BY <3>2, <3>3
  <2> QED BY <1>2, <2>3, <2>6, <2>7, <2>9 DEF new
<1> QED BY <1>3, <1>4

LEMMA AllocateInv ==
    ASSUME TableAssumption, TableInv, Hash!Allocate
    PROVE  TableInv'
<1> DEFINE new == Len(DataTable) + 1
           b == Hash!hash(Key)
           hashNew(i) == Hash!hash(DataTable'[i].key)
<1> USE DEF TableInv
<1>1. /\ Key \in Keys /\ b \in Hash!Buckets /\ entryIndex = Hash!INVALID_INDEX
      /\ Len(DataTable) \in Nat /\ new \in Nat /\ new <= DataTableSize
      /\ method \in Hash!Lookups
  BY HashIsBucket DEF Hash!Allocate, Hash!TypeOK, TableAssumption, Hash!Lookups
<1>2. /\ DataTable' \in Seq(Hash!Entry) /\ Len(DataTable') = new
      /\ Hash!Allocated' = Hash!Allocated \cup {new} /\ new \notin Hash!Allocated
      /\ \A i \in Hash!Allocated : i \in Nat /\ i < new /\ i # Hash!INVALID_INDEX
  BY <1>1, AllocateAppends DEF Hash!Allocated, Hash!INVALID_INDEX
<1>3. \A i \in Hash!Allocated : DataTable[i].key # Key
  BY <1>1 DEF Hash!SearchMissesNothing
<1>4. /\ \A i \in Hash!Allocated : DataTable'[i].key = DataTable[i].key
      /\ DataTable'[new].key = Key
      /\ DataTable'[new].NextEntryIndex = Hash!INVALID_INDEX
  BY AllocateAppends DEF Hash!NewEntry, Hash!DataEntry
<1>5. /\ \A i \in Hash!Allocated : hashNew(i) = Hash!hashOf(i)
      /\ hashNew(new) = b
  BY <1>4 DEF Hash!hashOf, Hash!hash
<1> HIDE DEF hashNew
<1>6. /\ \A c \in Hash!Buckets :
            HashMap'[c] = IF currentEntry = Hash!INVALID_INDEX /\ c = b THEN new ELSE HashMap[c]
      /\ HashMap' \in [Hash!Buckets -> 0 .. DataTableSize]
  BY <1>1 DEF Hash!Allocate, Hash!TypeOK, TableAssumption
<1>7. Hash!TypeOK'
  BY <1>1, <1>2, <1>6 DEF Hash!TypeOK, Hash!Allocate, Hash!Return, Hash!search
<1>8. Hash!KeysAreUnique'
  BY <1>2, <1>3, <1>4 DEF Hash!KeysAreUnique
<1>9. Hash!ChainsAreComplete'
  <2>1. CASE currentEntry = Hash!INVALID_INDEX
    <3>1. HashMap[b] = Hash!INVALID_INDEX
      BY <1>1, <2>1 DEF Hash!SearchMissesNothing
    <3>2. \A i \in Hash!Allocated : Hash!hashOf(i) # b
      BY <1>1, <3>1 DEF Hash!ChainsAreComplete
    <3>3. \A i \in Hash!Allocated : DataTable'[i].NextEntryIndex = DataTable[i].NextEntryIndex
      BY <1>2, <2>1, AllocateAppends
    <3>4. ASSUME NEW c \in Hash!Buckets
          PROVE  /\ HashMap'[c] # Hash!INVALID_INDEX =>
                       HashMap'[c] \in Hash!Allocated' /\ hashNew(HashMap'[c]) = c
                 /\ \A i \in Hash!Allocated' :
                       hashNew(i) = c => HashMap'[c] # Hash!INVALID_INDEX /\ HashMap'[c] <= i
      <4>1. CASE c = b
        <5>1. HashMap'[c] = new /\ new # Hash!INVALID_INDEX /\ new <= new
          BY <1>1, <1>6, <2>1, <4>1 DEF Hash!INVALID_INDEX
        <5> QED BY <1>2, <1>5, <3>2, <4>1, <5>1
      <4>2. CASE c # b
        <5>1. HashMap'[c] = HashMap[c]
          BY <1>6, <4>2
        <5> QED BY <1>2, <1>5, <4>2, <5>1 DEF Hash!ChainsAreComplete
      <4> QED BY <4>1, <4>2
    <3>5. ASSUME NEW i \in Hash!Allocated'
          PROVE  LET next == DataTable'[i].NextEntryIndex IN
                 /\ next # Hash!INVALID_INDEX =>
                       next \in Hash!Allocated' /\ i < next /\ hashNew(next) = hashNew(i)
                 /\ \A j \in Hash!Allocated' :
                       i < j /\ hashNew(j) = hashNew(i) => next # Hash!INVALID_INDEX /\ next <= j
      <4>1. CASE i = new
        <5>1. DataTable'[i].NextEntryIndex = Hash!INVALID_INDEX
          BY <1>4, <4>1
        <5>2. \A j \in Hash!Allocated' : ~(i < j)
          BY <1>1, <1>2, <4>1
        <5> QED BY <5>1, <5>2
      <4>2. CASE i \in Hash!Allocated
        <5>1. hashNew(new) # hashNew(i)
          BY <1>5, <3>2, <4>2
        <5> QED BY <1>2, <1>5, <3>3, <4>2, <5>1 DEF Hash!ChainsAreComplete
      <4> QED BY <1>2, <4>1, <4>2
    <3> QED BY <3>4, <3>5 DEF Hash!ChainsAreComplete, Hash!hashOf, hashNew, Hash!hash
  <2>2. CASE currentEntry # Hash!INVALID_INDEX
    <3>1. /\ currentEntry \in Hash!Allocated /\ Hash!hashOf(currentEntry) = b
          /\ DataTable[currentEntry].NextEntryIndex = Hash!INVALID_INDEX
      BY <1>1, <2>2 DEF Hash!SearchMissesNothing
    <3>2. \A j \in Hash!Allocated : Hash!hashOf(j) = b => ~(currentEntry < j)
      BY <3>1 DEF Hash!ChainsAreComplete
    <3>3. ASSUME NEW c \in Hash!Buckets
          PROVE  /\ HashMap'[c] # Hash!INVALID_INDEX =>
                       HashMap'[c] \in Hash!Allocated' /\ hashNew(HashMap'[c]) = c
                 /\ \A i \in Hash!Allocated' :
                       hashNew(i) = c => HashMap'[c] # Hash!INVALID_INDEX /\ HashMap'[c] <= i
      <4>1. HashMap'[c] = HashMap[c] /\ HashMap[c] \in 0 .. DataTableSize
        BY <1>6, <2>2 DEF Hash!TypeOK
      <4>2. c = b => HashMap[c] # Hash!INVALID_INDEX /\ HashMap[c] \in Hash!Allocated
        BY <1>1, <3>1 DEF Hash!ChainsAreComplete
      <4>3. \A i \in Hash!Allocated :
               hashNew(i) = c => HashMap[c] # Hash!INVALID_INDEX /\ HashMap[c] <= i
        BY <1>5 DEF Hash!ChainsAreComplete
      <4>4. hashNew(new) = c => HashMap[c] # Hash!INVALID_INDEX /\ HashMap[c] <= new
        BY <1>1, <1>2, <1>5, <4>2
      <4>5. HashMap[c] # Hash!INVALID_INDEX =>
               HashMap[c] \in Hash!Allocated /\ hashNew(HashMap[c]) = c
        BY <1>5 DEF Hash!ChainsAreComplete
      <4> QED BY <1>2, <4>1, <4>3, <4>4, <4>5
    <3>4. ASSUME NEW i \in Hash!Allocated'
          PROVE  LET next == DataTable'[i].NextEntryIndex IN
                 /\ next # Hash!INVALID_INDEX =>
                       next \in Hash!Allocated' /\ i < next /\ hashNew(next) = hashNew(i)
                 /\ \A j \in Hash!Allocated' :
                       i < j /\ hashNew(j) = hashNew(i) => next # Hash!INVALID_INDEX /\ next <= j
      <4>1. CASE i = new
        BY <1>1, <1>2, <1>4, <4>1
      <4>2. CASE i = currentEntry
        <5>1. DataTable'[i].NextEntryIndex = new
          BY <3>1, <4>2, AllocateAppends
        <5> QED BY <1>1, <1>2, <1>5, <3>1, <3>2, <4>2, <5>1 DEF Hash!INVALID_INDEX
      <4>3. CASE i \in Hash!Allocated /\ i # currentEntry
        <5>1. DataTable'[i].NextEntryIndex = DataTable[i].NextEntryIndex
          BY <4>3, AllocateAppends
        <5>2. Hash!hashOf(i) = b => DataTable[i].NextEntryIndex # Hash!INVALID_INDEX
                                /\ DataTable[i].NextEntryIndex <= currentEntry
          BY <1>2, <3>1, <3>2, <4>3 DEF Hash!ChainsAreComplete
        <5>3. DataTable[i].NextEntryIndex \in 0 .. DataTableSize /\ currentEntry \in Nat
          BY <1>2, <3>1, <4>3, EntriesAreTyped
        <5>4. Hash!hashOf(i) = b => DataTable[i].NextEntryIndex <= new
          BY <1>1, <1>2, <3>1, <5>2, <5>3 DEF TableAssumption
        <5> QED BY <1>2, <1>5, <4>3, <5>1, <5>2, <5>4 DEF Hash!ChainsAreComplete
      <4> QED BY <1>2, <3>1, <4>1, <4>2, <4>3
    <3> QED BY <3>3, <3>4 DEF Hash!ChainsAreComplete, Hash!hashOf, hashNew, Hash!hash
  <2> QED BY <2>1, <2>2
<1>10. Hash!SearchMissesNothing'
  BY ReturnEndsSearch DEF Hash!Allocate, Hash!Return, Hash!Lookups
<1> QED BY <1>7, <1>8, <1>9, <1>10

\* Reading, failing and enumerating change nothing in the table.
LEMMA OthersInv ==
    ASSUME TableAssumption, TableInv,
           Hash!ReadFound \/ Hash!ReadNotFound \/ Hash!TableIsFull
             \/ Hash!Enumerate \/ Hash!VisitEntry \/ Hash!EnumerateEnds
    PROVE  TableInv'
<1> USE DEF TableInv
<1>1. UNCHANGED Hash!tables /\ method' \notin Hash!Lookups
  BY DEF Hash!ReadFound, Hash!ReadNotFound, Hash!TableIsFull, Hash!Enumerate, Hash!VisitEntry,
         Hash!EnumerateEnds,
         Hash!Return, Hash!Lookups
<1>2. Hash!TypeOK'
  <2>1. entryIndex' \in 0 .. DataTableSize + 1
    BY DEF Hash!ReadFound, Hash!ReadNotFound, Hash!TableIsFull, Hash!Enumerate, Hash!VisitEntry,
           Hash!EnumerateEnds,
           Hash!Return, Hash!search, Hash!TypeOK, TableAssumption
  <2>2. /\ UNCHANGED <<Key, Value, currentEntry>>
        /\ method' \in {"none", "Enumerate"}
    BY DEF Hash!ReadFound, Hash!ReadNotFound, Hash!TableIsFull, Hash!Enumerate, Hash!VisitEntry,
           Hash!EnumerateEnds,
           Hash!Return, Hash!search, Hash!Lookups
  <2>3. method' = "Enumerate" => entryIndex' # Hash!INVALID_INDEX
    BY DEF Hash!ReadFound, Hash!ReadNotFound, Hash!TableIsFull, Hash!Enumerate, Hash!VisitEntry,
           Hash!EnumerateEnds,
           Hash!Return, Hash!TypeOK, Hash!INVALID_INDEX
  <2> QED BY <1>1, <2>1, <2>2, <2>3 DEF Hash!TypeOK, Hash!tables
<1> QED BY <1>1, <1>2, TablesUnchanged, ReturnEndsSearch

LEMMA TableNextInv ==
    ASSUME TableAssumption, TableInv, [Hash!Next]_(Hash!vars)
    PROVE  TableInv'
<1>1. CASE UNCHANGED Hash!vars
  BY <1>1 DEF Hash!vars, Hash!tables, Hash!search, TableInv, Hash!TypeOK, Hash!ChainsAreComplete,
              Hash!SearchMissesNothing,
              Hash!KeysAreUnique, Hash!Allocated, Hash!hashOf, Hash!hash
<1>2. CASE Hash!Next
  BY <1>2, LookupInv, SearchNextInv, UpdateFoundInv, AllocateInv, OthersInv DEF Hash!Next
<1> QED BY <1>1, <1>2

-----------------------------------------------------------------------------
(* The theorems.                                                            *)

\* Every entry can be reached, no search overlooks one and no key has two.
THEOREM TableIsSound ==
    ASSUME TableAssumption
    PROVE  Hash!Spec => [](Hash!ChainsAreComplete /\ Hash!SearchMissesNothing /\ Hash!KeysAreUnique)
<1>1. Hash!Init => TableInv
  BY TableInitInv
<1>2. TableInv /\ [Hash!Next]_(Hash!vars) => TableInv'
  BY TableNextInv
<1>3. TableInv => Hash!ChainsAreComplete /\ Hash!SearchMissesNothing /\ Hash!KeysAreUnique
  BY DEF TableInv
<1> QED BY <1>1, <1>2, <1>3, PTL DEF Hash!Spec

-----------------------------------------------------------------------------
(* The refinement.                                                          *)

Cursor == IF method = "Enumerate" THEN entryIndex ELSE 0

\* The contents are a sequence as long as the table.
LEMMA ContentsIsTable ==
    ASSUME TableAssumption, TableInv
    PROVE  /\ Hash!Contents \in Seq([key : Keys, value : TableValues])
           /\ Len(Hash!Contents) = Len(DataTable) /\ DOMAIN Hash!Contents = Hash!Allocated
           /\ \A i \in Hash!Allocated :
                 /\ Hash!Contents[i] = [key |-> DataTable[i].key, value |-> DataTable[i].value]
                 /\ Hash!Contents[i].key = DataTable[i].key
                 /\ Hash!Contents[i].value = DataTable[i].value
<1>1. Len(DataTable) \in Nat
  BY DEF TableInv, Hash!TypeOK
<1>2. \A i \in Hash!Allocated :
          [key |-> DataTable[i].key, value |-> DataTable[i].value]
              \in [key : Keys, value : TableValues]
  BY EntriesAreTyped DEF TableInv
<1>3. /\ Hash!Contents \in Seq([key : Keys, value : TableValues])
      /\ Len(Hash!Contents) = Len(DataTable)
  BY <1>1, <1>2 DEF Hash!Contents, Hash!Allocated
<1> QED BY <1>3 DEF Hash!Contents

\* A step that leaves the tables alone leaves the contents alone.
LEMMA ContentsUnchanged ==
    ASSUME UNCHANGED Hash!tables
    PROVE  Hash!Contents' = Hash!Contents
BY DEF Hash!tables, Hash!Contents, Hash!Allocated

LEMMA UpdateRefines ==
    ASSUME TableAssumption, TableInv, Hash!UpdateFound
    PROVE  Hash!Table!Update(method, Key, Value)
<1>1. /\ entryIndex \in Hash!Allocated /\ DataTable[entryIndex].key = Key
      /\ method # "Enumerate" /\ method' # "Enumerate"
  BY DEF TableInv, Hash!UpdateFound, Hash!Return, Hash!SearchMissesNothing, Hash!IsFound,
         Hash!Lookups
<1>2. answer' = Hash!Table!Answer(method, Key, "SUCCESS", Hash!Contents[entryIndex].value)
  BY <1>1, ContentsIsTable DEF Hash!UpdateFound, Hash!Return, Hash!Answer, Hash!Table!Answer
<1>3. Hash!Contents' = [Hash!Contents EXCEPT ![entryIndex] = [key |-> Key, value |-> Value]]
  <2>1. /\ Hash!Allocated' = Hash!Allocated
        /\ \A i \in Hash!Allocated : DataTable'[i] = IF i = entryIndex
              THEN Hash!DataEntry(DataTable[i].key, Value, DataTable[i].NextEntryIndex)
              ELSE DataTable[i]
    BY <1>1 DEF TableInv, Hash!TypeOK, Hash!UpdateFound, Hash!Allocated
  <2>2. \A i \in Hash!Allocated :
            [key |-> DataTable'[i].key, value |-> DataTable'[i].value] =
              IF i = entryIndex THEN [key |-> Key, value |-> Value] ELSE Hash!Contents[i]
    <3>1. SUFFICES ASSUME NEW i \in Hash!Allocated
                   PROVE  [key |-> DataTable'[i].key, value |-> DataTable'[i].value] =
                     IF i = entryIndex THEN [key |-> Key, value |-> Value] ELSE Hash!Contents[i]
      OBVIOUS
    <3>2. CASE i = entryIndex
      <4>1. DataTable'[i] = Hash!DataEntry(DataTable[i].key, Value, DataTable[i].NextEntryIndex)
        BY <2>1, <3>2
      <4>2. DataTable'[i].key = Key /\ DataTable'[i].value = Value
        BY <1>1, <3>2, <4>1 DEF Hash!DataEntry
      <4> QED BY <3>2, <4>2
    <3>3. CASE i # entryIndex
      BY <2>1, <3>3 DEF Hash!Contents
    <3> QED BY <3>2, <3>3
  <2>3. Hash!Contents' = [i \in Hash!Allocated |->
              IF i = entryIndex THEN [key |-> Key, value |-> Value] ELSE Hash!Contents[i]]
    BY <2>1, <2>2 DEF Hash!Contents
  <2>4. [Hash!Contents EXCEPT ![entryIndex] = [key |-> Key, value |-> Value]] =
            [i \in Hash!Allocated |->
              IF i = entryIndex THEN [key |-> Key, value |-> Value] ELSE Hash!Contents[i]]
    BY DEF Hash!Contents
  <2> QED BY <2>3, <2>4
<1> QED BY <1>1, <1>2, <1>3, ContentsIsTable DEF Hash!Table!Update, Hash!Table!Places

LEMMA AllocateRefines ==
    ASSUME TableAssumption, TableInv, Hash!Allocate
    PROVE  Hash!Table!Add(method, Key, Value)
<1> DEFINE new == Len(DataTable) + 1
<1>1. /\ method \in Hash!Lookups /\ entryIndex = Hash!INVALID_INDEX
      /\ method # "Enumerate" /\ method' # "Enumerate"
      /\ Len(DataTable) < DataTableSize /\ Len(DataTable) \in Nat
  BY DEF TableInv, Hash!TypeOK, Hash!Allocate, Hash!Return, Hash!Lookups
<1>2. \A i \in Hash!Allocated : DataTable[i].key # Key
  BY <1>1 DEF TableInv, Hash!SearchMissesNothing
<1>3. answer' = Hash!Table!Answer(method, Key, "SUCCESS", Empty)
  BY DEF Hash!Allocate, Hash!Return, Hash!Answer, Hash!Table!Answer
<1>4. Hash!Contents' = Append(Hash!Contents, [key |-> Key, value |-> Value])
  <2>1. /\ \A i \in Hash!Allocated : /\ DataTable'[i].key = DataTable[i].key
                                /\ DataTable'[i].value = DataTable[i].value
        /\ DataTable'[new].key = Key /\ DataTable'[new].value = Value
        /\ Hash!Allocated' = 1 .. new
    BY AllocateAppends DEF Hash!NewEntry, Hash!DataEntry, Hash!Allocated
  <2>2. Hash!Contents' =
            [i \in 1 .. new |-> [key |-> DataTable'[i].key, value |-> DataTable'[i].value]]
    BY <2>1 DEF Hash!Contents
  <2> DEFINE longer == Append(Hash!Contents, [key |-> Key, value |-> Value])
  <2>3. longer = [i \in 1 .. new |-> longer[i]]
    BY ContentsIsTable
  <2>4. \A i \in 1 .. new :
            longer[i] = [key |-> DataTable'[i].key, value |-> DataTable'[i].value]
    <3>1. SUFFICES ASSUME NEW i \in 1 .. new
                   PROVE  longer[i] = [key |-> DataTable'[i].key, value |-> DataTable'[i].value]
      OBVIOUS
    <3>2. CASE i = new
      <4>1. longer[i] = [key |-> Key, value |-> Value]
        BY <1>1, <3>2, ContentsIsTable
      <4> QED BY <2>1, <3>2, <4>1
    <3>3. CASE i # new
      <4>1. i \in Hash!Allocated
        BY <1>1, <3>3 DEF Hash!Allocated
      <4>2. longer[i] = Hash!Contents[i]
        BY <1>1, <4>1, ContentsIsTable DEF Hash!Allocated
      <4> QED BY <2>1, <4>1, <4>2, ContentsIsTable
    <3> QED BY <3>2, <3>3
  <2> HIDE DEF longer
  <2>5. Hash!Contents' = longer
    BY <2>2, <2>3, <2>4
  <2> QED BY <2>5 DEF longer
<1>5. \A i \in DOMAIN Hash!Contents : Hash!Contents[i].key # Key
  BY <1>2, ContentsIsTable
<1> QED BY <1>1, <1>3, <1>4, <1>5, ContentsIsTable DEF Hash!Table!Add, Hash!Table!Places

LEMMA FullRefines ==
    ASSUME TableAssumption, TableInv, Hash!TableIsFull
    PROVE  Hash!Table!Add(method, Key, Value)
<1>1. /\ method \in Hash!Lookups /\ entryIndex = Hash!INVALID_INDEX
      /\ method # "Enumerate" /\ method' # "Enumerate"
      /\ ~(Len(DataTable) < DataTableSize)
      /\ Hash!Contents' = Hash!Contents
  BY ContentsUnchanged DEF TableInv, Hash!TypeOK, Hash!TableIsFull, Hash!Return, Hash!Lookups,
                           TableAssumption
<1>2. \A i \in DOMAIN Hash!Contents : Hash!Contents[i].key # Key
  BY <1>1, ContentsIsTable DEF TableInv, Hash!SearchMissesNothing
<1>3. answer' = Hash!Table!Answer(method, Key, "BUFFER_TOO_SMALL", Empty)
  BY DEF Hash!TableIsFull, Hash!Return, Hash!Answer, Hash!Table!Answer
<1> QED BY <1>1, <1>2, <1>3, ContentsIsTable DEF Hash!Table!Add, Hash!Table!Places

LEMMA ReadRefines ==
    ASSUME TableAssumption, TableInv, Hash!ReadFound \/ Hash!ReadNotFound
    PROVE  Hash!Table!Read(Key)
<1>1. /\ method = "Read" /\ method' = "none" /\ Hash!Contents' = Hash!Contents
  BY ContentsUnchanged DEF Hash!ReadFound, Hash!ReadNotFound, Hash!Return
<1>2. CASE Hash!ReadFound
  <2>1. entryIndex \in Hash!Allocated /\ DataTable[entryIndex].key = Key
    BY <1>1, <1>2 DEF TableInv, Hash!ReadFound, Hash!SearchMissesNothing, Hash!IsFound, Hash!Lookups
  <2>2. \/ answer' = Hash!Table!Answer("Read", Key, "SUCCESS", Hash!Contents[entryIndex].value)
        \/ answer' = Hash!Table!Answer("Read", Key, "BUFFER_TOO_SMALL", Empty)
    BY <1>1, <1>2, <2>1, ContentsIsTable DEF Hash!ReadFound, Hash!Return, Hash!Answer,
                                             Hash!Table!Answer
  <2> QED BY <1>1, <2>1, <2>2, ContentsIsTable DEF Hash!Table!Read, Hash!Table!Places
<1>3. CASE Hash!ReadNotFound
  <2>1. \A i \in DOMAIN Hash!Contents : Hash!Contents[i].key # Key
    BY <1>1, <1>3, ContentsIsTable DEF TableInv, Hash!ReadNotFound, Hash!SearchMissesNothing,
                                       Hash!Lookups
  <2>2. answer' = Hash!Table!Answer("Read", Key, "NOT_FOUND", Empty)
    BY <1>1, <1>3 DEF Hash!ReadNotFound, Hash!Return, Hash!Answer, Hash!Table!Answer
  <2> QED BY <1>1, <2>1, <2>2 DEF Hash!Table!Read, Hash!Table!Places
<1> QED BY <1>2, <1>3

LEMMA EnumerateRefines ==
    ASSUME TableAssumption, TableInv, Hash!Enumerate \/ Hash!VisitEntry \/ Hash!EnumerateEnds
    PROVE  Hash!Table!Next
<1>1. Hash!Contents' = Hash!Contents
  BY ContentsUnchanged DEF Hash!Enumerate, Hash!VisitEntry, Hash!EnumerateEnds
<1>2. CASE Hash!Enumerate
  BY <1>1, <1>2 DEF Hash!Enumerate, Hash!Table!Next, Hash!Table!Enumerate
<1>3. CASE Hash!VisitEntry
  <2>1. entryIndex \in Hash!Allocated
    <3>1. entryIndex \in Nat /\ entryIndex # 0
      BY <1>3 DEF Hash!VisitEntry, TableInv, Hash!TypeOK, Hash!INVALID_INDEX
    <3> QED BY <1>3, <3>1 DEF Hash!VisitEntry, TableInv, Hash!TypeOK, Hash!Allocated
  <2>2. answer' = Hash!Table!Answer("Enumerate", Hash!Contents[entryIndex].key, "VISIT",
                                 Hash!Contents[entryIndex].value)
    BY <1>3, <2>1, ContentsIsTable DEF Hash!VisitEntry, Hash!Answer, Hash!Table!Answer
  <2>3. Cursor = entryIndex /\ Cursor' \in {entryIndex + 1, 0}
    BY <1>3 DEF Hash!VisitEntry, Cursor
  <2>4. Hash!Table!Visit
    BY <1>1, <2>1, <2>2, <2>3, ContentsIsTable DEF Hash!Table!Visit, Hash!Table!Places, Cursor
  <2> QED BY <2>4 DEF Hash!Table!Next
<1>4. CASE Hash!EnumerateEnds
  BY <1>1, <1>4, ContentsIsTable DEF Hash!EnumerateEnds, Hash!search, Hash!Table!Next,
                                     Hash!Table!EnumerateEnds
<1> QED BY <1>2, <1>3, <1>4

LEMMA TableStepRefines ==
    ASSUME TableAssumption, TableInv, [Hash!Next]_(Hash!vars)
    PROVE  [Hash!Table!Next]_<<Hash!Contents, Cursor, answer>>
<1>1. CASE UNCHANGED Hash!vars
  BY <1>1, ContentsUnchanged DEF Hash!vars, Hash!search, Cursor
<1>2. ASSUME NEW m \in Hash!Lookups, NEW k \in Keys, NEW v \in TableValues, Hash!Lookup(m, k, v)
      PROVE  UNCHANGED <<Hash!Contents, Cursor, answer>>
  BY <1>2, ContentsUnchanged DEF Hash!Lookup, Hash!Lookups, Cursor
<1>3. CASE Hash!SearchNext
  BY <1>3, ContentsUnchanged DEF Hash!SearchNext, Hash!Lookups, Cursor
<1>4. Key \in Keys /\ Value \in TableValues
  BY DEF TableInv, Hash!TypeOK
<1>5. CASE Hash!ReadFound \/ Hash!ReadNotFound
  BY <1>4, <1>5, ReadRefines DEF Hash!Table!Next
<1>6. CASE Hash!UpdateFound
  <2>1. method \in {"Find", "Write"}
    BY <1>6 DEF Hash!UpdateFound
  <2> QED BY <1>4, <1>6, <2>1, UpdateRefines DEF Hash!Table!Next
<1>7. CASE Hash!Allocate
  <2>1. method \in {"Find", "Write"}
    BY <1>7 DEF Hash!Allocate
  <2> QED BY <1>4, <1>7, <2>1, AllocateRefines DEF Hash!Table!Next
<1>8. CASE Hash!TableIsFull
  <2>1. method \in {"Find", "Write"}
    BY <1>8 DEF Hash!TableIsFull
  <2> QED BY <1>4, <1>8, <2>1, FullRefines DEF Hash!Table!Next
<1>9. CASE Hash!Enumerate \/ Hash!VisitEntry \/ Hash!EnumerateEnds
  BY <1>9, EnumerateRefines
<1> QED BY <1>1, <1>2, <1>3, <1>5, <1>6, <1>7, <1>8, <1>9 DEF Hash!Next

\* Whatever keys collide, DMF_HashTable_Read, Write, Find, FindEx and Enumerate
\* work on a table from keys to the values written last.
THEOREM HashTableIsTable ==
    ASSUME TableAssumption
    PROVE  Hash!Spec => Hash!ImplementsTable
<1>1. Hash!Init => TableInv
  BY TableInitInv
<1>2. TableInv /\ [Hash!Next]_(Hash!vars) => TableInv'
  BY TableNextInv
<1>3. Hash!Init => Hash!Table!Init
  BY DEF Hash!Init, Hash!Answer, Hash!Table!Init, Hash!Table!Answer, Hash!Contents, Hash!Allocated
<1>4. TableInv /\ [Hash!Next]_(Hash!vars) => [Hash!Table!Next]_<<Hash!Contents, Cursor, answer>>
  BY TableStepRefines
<1> QED BY <1>1, <1>2, <1>3, <1>4, PTL DEF Hash!Spec, Hash!ImplementsTable, Hash!Table!Spec, Cursor

-----------------------------------------------------------------------------
(* The two buffers.                                                         *)

\* The Module's configuration: PingPongBuffer_PingPongBufferCreate asserts it.
SizeAssumption == BufferSize \in Nat \ {0} /\ ZeroByte \in Bytes

PingPongInv ==
    /\ Buffer \in [{0, 1} -> [Pair!Offsets -> Bytes]]
    /\ BufferOffsetWrite \in [{0, 1} -> Nat]
    /\ Pair!OffsetsAreInside

-----------------------------------------------------------------------------
(* The buffers.                                                             *)

\* What a copy from Ping to Pong leaves in the two buffers.
LEMMA CopyKeepsPing ==
    ASSUME SizeAssumption, PingPongInv,
           NEW from \in Nat, from <= Pair!WriteOffset, Buffer' = Pair!Copied(from)
    PROVE  /\ Buffer' \in [{0, 1} -> [Pair!Offsets -> Bytes]]
           /\ Buffer'[PingBufferIndex] = Pair!Ping
           /\ \A i \in Pair!Offsets : i < Pair!WriteOffset - from =>
                 Buffer'[Pair!PongIndex][i] = Pair!Ping[from + i]
           /\ Pair!WriteOffset - from \in 0 .. BufferSize
           /\ Pair!PongIndex \in {0, 1} /\ Pair!PongIndex # PingBufferIndex
<1>1. /\ PingBufferIndex \in {0, 1} /\ Pair!PongIndex \in {0, 1} /\ Pair!PongIndex # PingBufferIndex
      /\ Pair!WriteOffset \in 0 .. BufferSize /\ BufferSize \in Nat
  BY DEF PingPongInv, Pair!OffsetsAreInside, Pair!PongIndex, SizeAssumption
<1>2. /\ Pair!Ping \in [Pair!Offsets -> Bytes]
      /\ Buffer[Pair!PongIndex] \in [Pair!Offsets -> Bytes]
  BY <1>1 DEF PingPongInv, Pair!Ping
<1>3. \A i \in Pair!Offsets : i < Pair!WriteOffset - from => from + i \in Pair!Offsets
  BY <1>1 DEF Pair!Offsets
<1> DEFINE copy == [i \in Pair!Offsets |->
              IF i < Pair!WriteOffset - from THEN Pair!Ping[from + i]
              ELSE Buffer[Pair!PongIndex][i]]
<1>4. copy \in [Pair!Offsets -> Bytes]
  BY <1>2, <1>3
<1>5. Buffer' = [Buffer EXCEPT ![Pair!PongIndex] = copy]
  BY DEF Pair!Copied
<1>6. \A i \in Pair!Offsets : i < Pair!WriteOffset - from => copy[i] = Pair!Ping[from + i]
  OBVIOUS
<1> HIDE DEF copy
<1>7. /\ Buffer' \in [{0, 1} -> [Pair!Offsets -> Bytes]]
      /\ Buffer'[PingBufferIndex] = Pair!Ping /\ Buffer'[Pair!PongIndex] = copy
  BY <1>1, <1>4, <1>5 DEF PingPongInv, Pair!Ping
<1>8. Pair!WriteOffset - from \in 0 .. BufferSize
  BY <1>1
<1> QED BY <1>1, <1>6, <1>7, <1>8

\* What a write leaves in Ping: the bytes that were there and then the data.
LEMMA PairWriteAppends ==
    ASSUME SizeAssumption, PingPongInv, NEW data \in Seq(Bytes), Pair!Write(data)
    PROVE  /\ Buffer' \in [{0, 1} -> [Pair!Offsets -> Bytes]]
           /\ Buffer'[Pair!PongIndex] = Buffer[Pair!PongIndex]
           /\ \A i \in Pair!Offsets : i < Pair!WriteOffset =>
                 Buffer'[PingBufferIndex][i] = Pair!Ping[i]
           /\ \A i \in 1 .. Len(data) :
                 Buffer'[PingBufferIndex][Pair!WriteOffset + i - 1] = data[i]
           /\ Pair!WriteOffset' = Pair!WriteOffset + Len(data)
           /\ Pair!WriteOffset' \in 0 .. BufferSize
           /\ Len(data) \in Nat
<1>1. /\ PingBufferIndex \in {0, 1} /\ Pair!PongIndex \in {0, 1} /\ Pair!PongIndex # PingBufferIndex
      /\ Pair!WriteOffset \in 0 .. BufferSize /\ BufferSize \in Nat
      /\ Len(data) \in Nat /\ Pair!WriteOffset + Len(data) <= BufferSize
  BY DEF PingPongInv, Pair!OffsetsAreInside, Pair!PongIndex, SizeAssumption, Pair!Write
<1>2. Pair!Ping \in [Pair!Offsets -> Bytes]
  BY <1>1 DEF PingPongInv, Pair!Ping
<1> DEFINE isData(i) == i \in Pair!WriteOffset .. Pair!WriteOffset + Len(data) - 1
           written == [i \in Pair!Offsets |->
              IF isData(i) THEN data[i - Pair!WriteOffset + 1] ELSE Pair!Ping[i]]
<1>3. \A i \in Pair!Offsets : isData(i) => i - Pair!WriteOffset + 1 \in 1 .. Len(data)
  BY <1>1 DEF Pair!Offsets
<1>4. \A i \in 1 .. Len(data) : data[i] \in Bytes
  OBVIOUS
<1>5. written \in [Pair!Offsets -> Bytes]
  BY <1>2, <1>3, <1>4
<1>6. Buffer' = [Buffer EXCEPT ![PingBufferIndex] = written]
  BY DEF Pair!Write
<1>7. \A i \in Pair!Offsets : i < Pair!WriteOffset => written[i] = Pair!Ping[i]
  BY <1>1 DEF Pair!Offsets
<1>8. ASSUME NEW i \in 1 .. Len(data)
      PROVE  written[Pair!WriteOffset + i - 1] = data[i]
  <2>1. /\ Pair!WriteOffset + i - 1 \in Pair!Offsets /\ isData(Pair!WriteOffset + i - 1)
        /\ (Pair!WriteOffset + i - 1) - Pair!WriteOffset + 1 = i
    BY <1>1 DEF Pair!Offsets
  <2> QED BY <2>1
<1> HIDE DEF written
<1>9. /\ Buffer' \in [{0, 1} -> [Pair!Offsets -> Bytes]]
      /\ Buffer'[PingBufferIndex] = written /\ Buffer'[Pair!PongIndex] = Buffer[Pair!PongIndex]
  BY <1>1, <1>5, <1>6 DEF PingPongInv
<1>10. Pair!WriteOffset' = Pair!WriteOffset + Len(data)
  BY <1>1 DEF Pair!Write, Pair!WriteOffset, PingPongInv
<1> QED BY <1>1, <1>7, <1>8, <1>9, <1>10

-----------------------------------------------------------------------------
(* The invariant.                                                           *)

LEMMA PingPongInitInv ==
    ASSUME SizeAssumption, Pair!Init
    PROVE  PingPongInv
BY DEF SizeAssumption, Pair!Init, PingPongInv, Pair!OffsetsAreInside, Pair!Place,
   Pair!PongIndex, Pair!WriteOffset,
       Pair!Offsets

LEMMA PingPongNextInv ==
    ASSUME SizeAssumption, PingPongInv, [Pair!Next]_(Pair!vars)
    PROVE  PingPongInv'
<1>1. /\ PingBufferIndex \in {0, 1} /\ Pair!PongIndex \in {0, 1} /\ Pair!PongIndex # PingBufferIndex
      /\ Pair!WriteOffset \in 0 .. BufferSize /\ BufferSize \in Nat
      /\ BufferOffsetWrite \in [{0, 1} -> Nat]
  BY DEF PingPongInv, Pair!OffsetsAreInside, Pair!PongIndex, SizeAssumption
<1>2. ASSUME NEW s \in 0 .. BufferSize, NEW l \in 0 .. BufferSize, Pair!Consume(s, l)
      PROVE  PingPongInv'
  <2>1. /\ s + l \in Nat /\ s + l <= Pair!WriteOffset /\ s + l <= BufferSize
        /\ Pair!WriteOffset - (s + l) = Pair!WriteOffset - s - l
    BY <1>1, <1>2 DEF Pair!Consume
  <2>2. Buffer' \in [{0, 1} -> [Pair!Offsets -> Bytes]]
    BY <1>2, <2>1, CopyKeepsPing DEF Pair!Consume
  <2>3. /\ BufferOffsetWrite' \in [{0, 1} -> Nat]
        /\ BufferOffsetWrite'[Pair!PongIndex] \in 0 .. BufferSize
    BY <1>1, <1>2, <2>1 DEF Pair!Consume
  <2>4. Pair!OffsetsAreInside'
    BY <1>1, <1>2, <2>1, <2>3 DEF Pair!Consume, Pair!OffsetsAreInside, Pair!Place,
       Pair!PongIndex, Pair!WriteOffset
  <2> QED BY <2>2, <2>3, <2>4 DEF PingPongInv
<1>3. ASSUME NEW s \in 0 .. BufferSize, Pair!Shift(s)
      PROVE  PingPongInv'
  <2>1. s \in Nat /\ s <= Pair!WriteOffset
    BY <1>1, <1>3 DEF Pair!Shift
  <2>2. Buffer' \in [{0, 1} -> [Pair!Offsets -> Bytes]]
    BY <1>3, <2>1, CopyKeepsPing DEF Pair!Shift
  <2>3. /\ BufferOffsetWrite' \in [{0, 1} -> Nat]
        /\ BufferOffsetWrite'[Pair!PongIndex] \in 0 .. BufferSize
    BY <1>1, <1>3, <2>1 DEF Pair!Shift
  <2>4. Pair!OffsetsAreInside'
    BY <1>1, <1>3, <2>1, <2>3 DEF Pair!Shift, Pair!OffsetsAreInside, Pair!Place, Pair!PongIndex,
       Pair!WriteOffset
  <2> QED BY <2>2, <2>3, <2>4 DEF PingPongInv
<1>4. ASSUME NEW data \in Seq(Bytes), Pair!Write(data)
      PROVE  PingPongInv'
  <2>1. BufferOffsetWrite' \in [{0, 1} -> Nat]
    BY <1>1, <1>4 DEF Pair!Write
  <2> QED BY <1>4, <2>1, PairWriteAppends
          DEF PingPongInv, Pair!OffsetsAreInside, Pair!Write, Pair!PongIndex
<1>5. CASE Pair!Reset
  <2>1. BufferOffsetWrite' \in [{0, 1} -> Nat] /\ Pair!WriteOffset' = 0
    BY <1>1, <1>5 DEF Pair!Reset, Pair!WriteOffset
  <2> QED BY <1>1, <1>5, <2>1 DEF PingPongInv, Pair!OffsetsAreInside, Pair!Reset, Pair!PongIndex
<1>6. ASSUME UNCHANGED <<Buffer, PingBufferIndex, BufferOffsetWrite, packet>>
      PROVE  PingPongInv'
  BY <1>6 DEF PingPongInv, Pair!OffsetsAreInside, Pair!PongIndex, Pair!WriteOffset
<1> QED BY <1>2, <1>3, <1>4, <1>5, <1>6 DEF Pair!Next, Pair!vars, Pair!WriteFails, Pair!Get

\* No offset leaves the buffers, and collecting never touches the packet.
THEOREM OffsetsAlwaysInside ==
    ASSUME SizeAssumption
    PROVE  Pair!Spec => []Pair!OffsetsAreInside
<1>1. Pair!Init => PingPongInv
  BY PingPongInitInv
<1>2. PingPongInv /\ [Pair!Next]_(Pair!vars) => PingPongInv'
  BY PingPongNextInv
<1>3. PingPongInv => Pair!OffsetsAreInside
  BY DEF PingPongInv
<1> QED BY <1>1, <1>2, <1>3, PTL DEF Pair!Spec

-----------------------------------------------------------------------------
(* The refinement, one Method at a time.                                    *)

\* What has been collected is a sequence as long as the write offset says.
LEMMA CollectedIsSeq ==
    ASSUME SizeAssumption, PingPongInv
    PROVE  /\ Pair!Collected \in Seq(Bytes) /\ Len(Pair!Collected) = Pair!WriteOffset
           /\ \A i \in 1 .. Pair!WriteOffset : Pair!Collected[i] = Pair!Ping[i - 1]
           /\ Pair!WriteOffset \in 0 .. BufferSize
<1>1. Pair!WriteOffset \in Nat /\ Pair!WriteOffset \in 0 .. BufferSize /\ BufferSize \in Nat
  BY DEF PingPongInv, Pair!OffsetsAreInside, SizeAssumption
<1>2. Pair!Ping \in [Pair!Offsets -> Bytes]
  BY DEF PingPongInv, Pair!OffsetsAreInside, Pair!Ping
<1>3. \A i \in 1 .. Pair!WriteOffset : i - 1 \in Pair!Offsets
  BY <1>1 DEF Pair!Offsets
<1>4. \A i \in 1 .. Pair!WriteOffset : Pair!Ping[i - 1] \in Bytes
  BY <1>2, <1>3
<1>5. Pair!Collected \in Seq(Bytes) /\ Len(Pair!Collected) = Pair!WriteOffset
  BY <1>1, <1>4 DEF Pair!Collected
<1> QED BY <1>1, <1>5 DEF Pair!Collected

\* After a copy and a change of buffers, what is collected is the rest.
LEMMA RestIsCollected ==
    ASSUME SizeAssumption, PingPongInv,
           NEW from \in Nat, from <= Pair!WriteOffset, Buffer' = Pair!Copied(from),
           PingBufferIndex' = Pair!PongIndex, Pair!WriteOffset' = Pair!WriteOffset - from
    PROVE  Pair!Collected' = Pair!Stream!Part(Pair!Collected, from, Len(Pair!Collected) - from)
<1> DEFINE n == Pair!WriteOffset - from
<1>1. n \in 0 .. BufferSize /\ BufferSize \in Nat /\ Pair!WriteOffset \in Nat
  BY CopyKeepsPing, CollectedIsSeq DEF SizeAssumption
<1>2. \A i \in 1 .. n : Buffer'[Pair!PongIndex][i - 1] = Pair!Collected[from + i]
  <2>1. SUFFICES ASSUME NEW i \in 1 .. n
                 PROVE  Buffer'[Pair!PongIndex][i - 1] = Pair!Collected[from + i]
    OBVIOUS
  <2>2. /\ i - 1 \in Pair!Offsets /\ i - 1 < n /\ from + i \in 1 .. Pair!WriteOffset
        /\ from + (i - 1) = (from + i) - 1
    BY <1>1 DEF Pair!Offsets
  <2>3. Buffer'[Pair!PongIndex][i - 1] = Pair!Ping[from + (i - 1)]
    BY <2>2, CopyKeepsPing
  <2>4. Pair!Collected[from + i] = Pair!Ping[(from + i) - 1]
    BY <2>2, CollectedIsSeq
  <2> QED BY <2>2, <2>3, <2>4
<1>3. Pair!Collected' = [i \in 1 .. n |-> Buffer'[Pair!PongIndex][i - 1]]
  BY DEF Pair!Collected, Pair!Ping
<1>4. Pair!Stream!Part(Pair!Collected, from, Len(Pair!Collected) - from) =
         [i \in 1 .. n |-> Pair!Collected[from + i]]
  BY CollectedIsSeq DEF Pair!Stream!Part
<1> QED BY <1>2, <1>3, <1>4

LEMMA ConsumeRefines ==
    ASSUME SizeAssumption, PingPongInv,
           NEW s \in 0 .. BufferSize, NEW l \in 0 .. BufferSize, Pair!Consume(s, l)
    PROVE  Pair!Stream!Consume(s, l)
<1>1. /\ s + l \in Nat /\ s + l <= Pair!WriteOffset /\ Pair!WriteOffset \in Nat
      /\ BufferSize \in Nat /\ s \in Nat /\ l \in Nat /\ PingBufferIndex \in {0, 1}
      /\ Buffer' = Pair!Copied(s + l) /\ PingBufferIndex' = Pair!PongIndex
  BY DEF Pair!Consume, PingPongInv, Pair!OffsetsAreInside, SizeAssumption
<1>2. Pair!WriteOffset' = Pair!WriteOffset - (s + l)
  BY <1>1, CopyKeepsPing DEF Pair!Consume, Pair!WriteOffset
<1>3. Pair!Collected' = Pair!Stream!Part(Pair!Collected, s + l, Len(Pair!Collected) - (s + l))
  BY <1>1, <1>2, RestIsCollected
<1>4. Len(Pair!Collected) - (s + l) = Len(Pair!Collected) - s - l
  BY <1>1, CollectedIsSeq
<1>5. Pair!Packet' = Pair!Stream!Part(Pair!Collected, s, l)
  <2>1. Pair!Packet' = [i \in 1 .. l |-> Pair!Ping[s + i - 1]]
    <3>1. /\ packet'.index = PingBufferIndex /\ packet'.start = s /\ packet'.length = l
      BY DEF Pair!Consume, Pair!Place
    <3>2. Buffer'[PingBufferIndex] = Pair!Ping
      BY <1>1, CopyKeepsPing
    <3> QED BY <3>1, <3>2 DEF Pair!Packet
  <2>2. \A i \in 1 .. l : Pair!Ping[s + i - 1] = Pair!Collected[s + i]
    <3>1. SUFFICES ASSUME NEW i \in 1 .. l PROVE Pair!Ping[s + i - 1] = Pair!Collected[s + i]
      OBVIOUS
    <3>2. s + i \in 1 .. Pair!WriteOffset /\ s + i - 1 = (s + i) - 1
      BY <1>1
    <3> QED BY <3>2, CollectedIsSeq
  <2> QED BY <2>1, <2>2 DEF Pair!Stream!Part
<1>6. UNCHANGED size
  BY DEF Pair!Consume
<1> QED BY <1>1, <1>3, <1>4, <1>5, <1>6, CollectedIsSeq DEF Pair!Stream!Consume

LEMMA ShiftRefines ==
    ASSUME SizeAssumption, PingPongInv, NEW s \in 0 .. BufferSize, Pair!Shift(s)
    PROVE  Pair!Stream!Shift(s)
<1>1. /\ s \in Nat /\ s <= Pair!WriteOffset /\ PingBufferIndex \in {0, 1}
      /\ Buffer' = Pair!Copied(s) /\ PingBufferIndex' = Pair!PongIndex
      /\ BufferOffsetWrite \in [{0, 1} -> Nat]
  BY DEF Pair!Shift, PingPongInv, Pair!OffsetsAreInside, SizeAssumption
<1>2. Pair!WriteOffset' = Pair!WriteOffset - s
  BY <1>1, CopyKeepsPing DEF Pair!Shift, Pair!WriteOffset
<1>3. Pair!Collected' = Pair!Stream!Part(Pair!Collected, s, Len(Pair!Collected) - s)
  BY <1>1, <1>2, RestIsCollected
<1>4. Pair!Packet' = <<>>
  <2>1. packet'.length = 0
    BY DEF Pair!Shift, Pair!Place
  <2> QED BY <2>1 DEF Pair!Packet
<1>5. UNCHANGED size
  BY DEF Pair!Shift
<1> QED BY <1>1, <1>3, <1>4, <1>5, CollectedIsSeq DEF Pair!Stream!Shift

LEMMA WriteRefines ==
    ASSUME SizeAssumption, PingPongInv, NEW data \in Seq(Bytes), Pair!Write(data)
    PROVE  Pair!Stream!Write(data)
<1> DEFINE w == Pair!WriteOffset
           n == Len(data)
<1>1. /\ w \in Nat /\ n \in Nat /\ Pair!WriteOffset' = w + n /\ w + n <= BufferSize
      /\ BufferSize \in Nat /\ PingBufferIndex' = PingBufferIndex
  <2>1. w \in Nat /\ BufferSize \in Nat
    BY CollectedIsSeq DEF SizeAssumption
  <2>2. n \in Nat /\ Pair!WriteOffset' = w + n
    BY PairWriteAppends
  <2>3. w + n <= BufferSize /\ PingBufferIndex' = PingBufferIndex
    BY DEF Pair!Write
  <2> QED BY <2>1, <2>2, <2>3
<1>2. Pair!Collected' = [i \in 1 .. w + n |-> Buffer'[PingBufferIndex][i - 1]]
  BY <1>1 DEF Pair!Collected, Pair!Ping
<1> DEFINE longer == Pair!Collected \o data
<1>3. /\ Len(longer) = w + n /\ longer \in Seq(Bytes)
      /\ \A i \in 1 .. w + n :
            longer[i] = IF i <= w THEN Pair!Collected[i] ELSE data[i - w]
  <2> HIDE DEF w, n
  <2>1. /\ Pair!Collected \in Seq(Bytes) /\ Len(Pair!Collected) = w /\ Len(data) = n
    BY CollectedIsSeq DEF w, n
  <2>2. /\ longer \in Seq(Bytes) /\ Len(longer) = Len(Pair!Collected) + Len(data)
        /\ \A i \in 1 .. Len(Pair!Collected) + Len(data) :
              longer[i] = IF i <= Len(Pair!Collected) THEN Pair!Collected[i]
                          ELSE data[i - Len(Pair!Collected)]
    BY <2>1, ConcatProperties
  <2> QED BY <2>1, <2>2
<1>4. longer = [i \in 1 .. w + n |-> longer[i]]
  <2> HIDE DEF longer
  <2>1. longer = [i \in 1 .. Len(longer) |-> longer[i]]
    BY <1>3
  <2> QED BY <1>3, <2>1
<1>5. ASSUME NEW i \in 1 .. w + n
      PROVE  longer[i] = Buffer'[PingBufferIndex][i - 1]
  <2>1. CASE i <= w
    <3>1. i \in 1 .. w /\ i - 1 \in Pair!Offsets /\ i - 1 < w
      BY <1>1, <2>1 DEF Pair!Offsets
    <3>2. longer[i] = Pair!Ping[i - 1]
      BY <1>3, <2>1, <3>1, CollectedIsSeq
    <3>3. Buffer'[PingBufferIndex][i - 1] = Pair!Ping[i - 1]
      BY <3>1, PairWriteAppends
    <3> QED BY <3>2, <3>3
  <2>2. CASE ~(i <= w)
    <3>1. i - w \in 1 .. n /\ w + (i - w) - 1 = i - 1
      BY <1>1, <2>2
    <3>2. Buffer'[PingBufferIndex][w + (i - w) - 1] = data[i - w]
      BY <3>1, PairWriteAppends
    <3> QED BY <1>3, <2>2, <3>1, <3>2
  <2> QED BY <2>1, <2>2
<1> HIDE DEF longer
<1>6. Pair!Collected' = longer
  BY <1>2, <1>4, <1>5
<1>7. Pair!Packet' = Pair!Packet
  <2>1. /\ packet' = packet /\ packet.index = Pair!PongIndex
        /\ Buffer'[Pair!PongIndex] = Buffer[Pair!PongIndex]
    BY PairWriteAppends DEF Pair!Write, PingPongInv, Pair!OffsetsAreInside
  <2> QED BY <2>1 DEF Pair!Packet
<1>8. size' = Len(Pair!Collected')
  BY <1>1, <1>3, <1>6 DEF Pair!Write
<1> QED BY <1>1, <1>6, <1>7, <1>8, CollectedIsSeq DEF Pair!Stream!Write, longer

LEMMA OthersRefine ==
    ASSUME SizeAssumption, PingPongInv
    PROVE  /\ \A data \in Seq(Bytes) : Pair!WriteFails(data) => Pair!Stream!TellSize
           /\ Pair!Get => Pair!Stream!TellSize
           /\ Pair!Reset => Pair!Stream!Reset
<1>1. ASSUME UNCHANGED <<Buffer, PingBufferIndex, BufferOffsetWrite, packet>>
      PROVE  UNCHANGED <<Pair!Collected, Pair!Packet>>
  BY <1>1 DEF Pair!Collected, Pair!Packet, Pair!Ping, Pair!WriteOffset
<1>2. Pair!Reset => Pair!Stream!Reset
  <2>1. SUFFICES ASSUME Pair!Reset PROVE Pair!Stream!Reset
    OBVIOUS
  <2>2. Pair!WriteOffset' = 0
    BY <2>1 DEF Pair!Reset, Pair!WriteOffset, PingPongInv, Pair!OffsetsAreInside
  <2>3. Pair!Collected' = <<>> /\ Pair!Packet' = Pair!Packet
    BY <2>1, <2>2 DEF Pair!Reset, Pair!Collected, Pair!Packet
  <2> QED BY <2>1, <2>3 DEF Pair!Reset, Pair!Stream!Reset
<1> QED BY <1>1, <1>2, CollectedIsSeq DEF Pair!WriteFails, Pair!Get, Pair!Stream!TellSize

\* DMF_PingPongBuffer_Write, Consume, Shift, Reset and Get are a stream from
\* which packets are taken that stay as they are while more is collected.
THEOREM PingPongIsStream ==
    ASSUME SizeAssumption
    PROVE  Pair!Spec => Pair!ImplementsStream
<1>1. Pair!Init => PingPongInv
  BY PingPongInitInv
<1>2. PingPongInv /\ [Pair!Next]_(Pair!vars) => PingPongInv'
  BY PingPongNextInv
<1>3. Pair!Init => Pair!Stream!Init
  BY DEF Pair!Init, Pair!Place, Pair!Stream!Init, Pair!Collected, Pair!Packet, Pair!WriteOffset
<1>4. PingPongInv /\ [Pair!Next]_(Pair!vars) =>
         [Pair!Stream!Next]_<<Pair!Collected, Pair!Packet, size>>
  <2>1. SUFFICES ASSUME PingPongInv, [Pair!Next]_(Pair!vars)
                 PROVE  [Pair!Stream!Next]_<<Pair!Collected, Pair!Packet, size>>
    OBVIOUS
  <2>2. CASE UNCHANGED Pair!vars
    BY <2>2 DEF Pair!vars, Pair!Collected, Pair!Packet, Pair!Ping, Pair!WriteOffset
  <2>3. CASE Pair!Next
    BY <2>1, <2>3, ConsumeRefines, ShiftRefines, WriteRefines, OthersRefine
       DEF Pair!Next, Pair!Stream!Next
  <2> QED BY <2>1, <2>2, <2>3
<1> QED BY <1>1, <1>2, <1>3, <1>4, PTL DEF Pair!Spec, Pair!ImplementsStream, Pair!Stream!Spec
=============================================================================
