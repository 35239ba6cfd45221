------------------------------- MODULE HashTable -------------------------------
(***************************************************************************)
(* DMF_HashTable: a table of keys and values whose collisions are chained  *)
(* through the entries (Modules.Library/Dmf_HashTable.c). A Method holds   *)
(* the lock of the Module from its first step to its answer; the walk      *)
(* along a chain is one step per entry. DataTable is the sequence of the   *)
(* entries allocated, so DataEntriesAllocated is its length, indices count *)
(* from one and INVALID_INDEX is zero. Values stands for the values that   *)
(* fit MaximumValueLength, Empty for the one of length zero.               *)
(***************************************************************************)
EXTENDS Integers, Sequences

CONSTANTS Keys, Values, Empty,
          HashCalculate,        \* EvtHashTableHashCalculate, of each key
          DataTableSize         \* MaximumTableSize of the Module's configuration

VARIABLES HashMap, DataTable,
          method,               \* which Method holds the lock, or "none"
          Key, Value,           \* its parameters; what the callback of Find leaves
          entryIndex, currentEntry,
          answer                \* what the last Method or callback was given

tables == <<HashMap, DataTable>>
search == <<Key, Value, entryIndex, currentEntry>>
vars == <<tables, method, search, answer>>

INVALID_INDEX == 0
HashMapSize == 2 * DataTableSize
Buckets == 0 .. HashMapSize - 1

hash(k) == HashCalculate[k] % HashMapSize

Allocated == 1 .. Len(DataTable)
Lookups == {"Read", "Find", "Write"}

DataEntry(k, v, next) == [key |-> k, value |-> v, NextEntryIndex |-> next]

Answer(status, v) == [method |-> method, key |-> Key, status |-> status, value |-> v]

-----------------------------------------------------------------------------
\* HashTable_ContextInitialize.
Init ==
    /\ HashMap = [b \in Buckets |-> INVALID_INDEX]
    /\ DataTable = <<>>
    /\ method = "none"
    /\ Key \in Keys /\ Value = Empty
    /\ entryIndex = INVALID_INDEX /\ currentEntry = INVALID_INDEX
    /\ answer = Answer("none", Empty)

\* A Method takes the lock and starts with the first entry of its chain.
Lookup(m, k, v) ==
    /\ method = "none"
    /\ method' = m
    /\ Key' = k /\ Value' = v
    /\ entryIndex' = HashMap[hash(k)]
    /\ currentEntry' = INVALID_INDEX
    /\ UNCHANGED <<tables, answer>>

IsFound == entryIndex # INVALID_INDEX /\ DataTable[entryIndex].key = Key

\* The loop goes on to the next entry of the chain.
SearchNext ==
    /\ method \in Lookups
    /\ entryIndex # INVALID_INDEX /\ ~IsFound
    /\ currentEntry' = entryIndex
    /\ entryIndex' = DataTable[entryIndex].NextEntryIndex
    /\ UNCHANGED <<tables, method, Key, Value, answer>>

Return(status, v) ==
    /\ answer' = Answer(status, v)
    /\ method' = "none"
    /\ UNCHANGED search

\* DMF_HashTable_Read, when the key is there: the value or, for a buffer that
\* is too short for it, the failure.
ReadFound ==
    /\ method = "Read" /\ IsFound
    /\ \/ Return("SUCCESS", DataTable[entryIndex].value)
       \/ Return("BUFFER_TOO_SMALL", Empty)
    /\ UNCHANGED tables

ReadNotFound ==
    /\ method = "Read" /\ entryIndex = INVALID_INDEX
    /\ Return("NOT_FOUND", Empty)
    /\ UNCHANGED tables

\* DMF_HashTable_Write replaces the value; Find and FindEx show it to the
\* callback, which leaves another one.
UpdateFound ==
    /\ method \in {"Find", "Write"} /\ IsFound
    /\ Return("SUCCESS", DataTable[entryIndex].value)
    /\ DataTable' = [DataTable EXCEPT ![entryIndex] = DataEntry(@.key, Value, @.NextEntryIndex)]
    /\ UNCHANGED HashMap

NewEntry == DataEntry(Key, Value, INVALID_INDEX)

\* The table with a new end of the chain of entry i.
Linked(i, next) == [DataTable EXCEPT ![i] = DataEntry(@.key, @.value, next)]

\* HashTable_DataEntryAllocate, linked to the bucket or to the last entry of
\* the chain; the callback of Find sees a value of length zero.
Allocate ==
    /\ method \in {"Find", "Write"} /\ entryIndex = INVALID_INDEX
    /\ Len(DataTable) < DataTableSize
    /\ IF currentEntry = INVALID_INDEX
          THEN /\ HashMap' = [HashMap EXCEPT ![hash(Key)] = Len(DataTable) + 1]
               /\ DataTable' = Append(DataTable, NewEntry)
          ELSE /\ DataTable' = Append(Linked(currentEntry, Len(DataTable) + 1), NewEntry)
               /\ UNCHANGED HashMap
    /\ Return("SUCCESS", Empty)

\* HashTable_DataEntryAllocate with every entry in use.
TableIsFull ==
    /\ method \in {"Find", "Write"} /\ entryIndex = INVALID_INDEX
    /\ Len(DataTable) >= DataTableSize
    /\ Return("BUFFER_TOO_SMALL", Empty)
    /\ UNCHANGED tables

\* DMF_HashTable_Enumerate.
Enumerate ==
    /\ method = "none"
    /\ method' = "Enumerate"
    /\ entryIndex' = 1
    /\ UNCHANGED <<tables, Key, Value, currentEntry, answer>>

\* The callback is given an entry and returns TRUE to be given the next one.
VisitEntry ==
    /\ method = "Enumerate" /\ entryIndex <= Len(DataTable)
    /\ answer' = [Answer("VISIT", DataTable[entryIndex].value)
                    EXCEPT !.key = DataTable[entryIndex].key]
    /\ \/ entryIndex' = entryIndex + 1 /\ UNCHANGED method
       \/ method' = "none" /\ UNCHANGED entryIndex
    /\ UNCHANGED <<tables, Key, Value, currentEntry>>

EnumerateEnds ==
    /\ method = "Enumerate" /\ entryIndex > Len(DataTable)
    /\ method' = "none"
    /\ UNCHANGED <<tables, search, answer>>

Next ==
    \/ \E m \in Lookups, k \in Keys, v \in Values : Lookup(m, k, v)
    \/ SearchNext \/ ReadFound \/ ReadNotFound
    \/ UpdateFound \/ Allocate \/ TableIsFull
    \/ Enumerate \/ VisitEntry \/ EnumerateEnds

Spec == Init /\ [][Next]_vars

-----------------------------------------------------------------------------
Entry == [key : Keys, value : Values, NextEntryIndex : 0 .. DataTableSize]

TypeOK ==
    /\ HashMap \in [Buckets -> 0 .. DataTableSize]
    /\ DataTable \in Seq(Entry) /\ Len(DataTable) <= DataTableSize
    /\ method \in Lookups \cup {"none", "Enumerate"}
    /\ Key \in Keys /\ Value \in Values
    /\ entryIndex \in 0 .. DataTableSize + 1
    /\ currentEntry \in 0 .. DataTableSize
    /\ method = "Enumerate" => entryIndex # INVALID_INDEX

hashOf(i) == hash(DataTable[i].key)

\* A bucket leads to its first entry and every entry to the next one with its
\* hash, so whatever was added can be reached: HashTable_DataEntryFindOrAllocate
\* links a new entry behind the last one.
ChainsAreComplete ==
    /\ \A b \in Buckets :
          /\ HashMap[b] # INVALID_INDEX => HashMap[b] \in Allocated /\ hashOf(HashMap[b]) = b
          /\ \A i \in Allocated : hashOf(i) = b => HashMap[b] # INVALID_INDEX /\ HashMap[b] <= i
    /\ \A i \in Allocated : LET next == DataTable[i].NextEntryIndex IN
          /\ next # INVALID_INDEX => next \in Allocated /\ i < next /\ hashOf(next) = hashOf(i)
          /\ \A j \in Allocated :
                i < j /\ hashOf(j) = hashOf(i) => next # INVALID_INDEX /\ next <= j

\* What a search has passed is not what it looks for, and it knows the end of
\* the chain when it arrives there.
SearchMissesNothing ==
    method \in Lookups =>
        /\ entryIndex # INVALID_INDEX =>
              entryIndex \in Allocated /\ hashOf(entryIndex) = hash(Key)
        /\ \A i \in Allocated :
              DataTable[i].key = Key => entryIndex # INVALID_INDEX /\ entryIndex <= i
        /\ IF currentEntry = INVALID_INDEX
              THEN entryIndex = HashMap[hash(Key)]
              ELSE /\ currentEntry \in Allocated /\ hashOf(currentEntry) = hash(Key)
                   /\ entryIndex = DataTable[currentEntry].NextEntryIndex

\* No key has two entries, of which a Method would find only the first.
KeysAreUnique ==
    \A i, j \in Allocated : DataTable[i].key = DataTable[j].key => i = j

\* The entries in the order in which their keys were added.
Contents == [i \in Allocated |-> [key |-> DataTable[i].key, value |-> DataTable[i].value]]

Table == INSTANCE KeyValueTable
    WITH entries <- Contents,
         cursor <- IF method = "Enumerate" THEN entryIndex ELSE 0,
         answer <- answer

\* Whatever collides, the Methods work on a table from keys to values.
ImplementsTable == Table!Spec
=============================================================================
