------------------------------ MODULE RingBuffer ------------------------------
(***************************************************************************)
(* DMF_RingBuffer: items in a circle of memory (Modules.Library/           *)
(* Dmf_RingBuffer.c). Pointers are indices of Items and BufferEnd is       *)
(* ItemCount; every Method runs under the lock of the Module and is one    *)
(* step.                                                                   *)
(***************************************************************************)
EXTENDS Integers, Sequences

CONSTANTS ItemCount,    \* of the Module's configuration
          Mode,         \* RingBuffer_Mode_...
          Values,       \* what an item contains
          Zero          \* what erased memory contains

ASSUME RingAssumption ==
    /\ ItemCount \in Nat \ {0}
    /\ Mode \in {"FailIfFullOnWrite", "DeleteOldestIfFullOnWrite"}
    /\ Zero \in Values

VARIABLES Items, ReadPointer, WritePointer, ItemsPresentCount

ringVars == <<Items, ReadPointer, WritePointer, ItemsPresentCount>>

Places == 0 .. ItemCount - 1
BufferEnd == ItemCount

\* RingBuffer_Create.
RingInit ==
    /\ Items = [i \in Places |-> Zero]
    /\ ReadPointer = 0 /\ WritePointer = 0
    /\ ItemsPresentCount = 0

Increment(pointer) == IF pointer + 1 = BufferEnd THEN 0 ELSE pointer + 1

\* The place of the item that n reads reach.
After(n) == IF ReadPointer + n < BufferEnd THEN ReadPointer + n ELSE ReadPointer + n - BufferEnd

IsFull == ItemsPresentCount = ItemCount

Put(v) ==
    /\ Items' = [Items EXCEPT ![WritePointer] = v]
    /\ WritePointer' = Increment(WritePointer)

\* RingBuffer_Write, with room.
Write(v) ==
    /\ ~IsFull
    /\ Put(v)
    /\ ItemsPresentCount' = ItemsPresentCount + 1
    /\ UNCHANGED ReadPointer

\* RingBuffer_Write into the full buffer, in the mode that throws away the
\* oldest item; in the other one it fails and changes nothing.
WriteOverOldest_Keeps(v) ==                 \* mutant: the oldest is not thrown away
    /\ IsFull /\ Mode = "DeleteOldestIfFullOnWrite"
    /\ Put(v)
    /\ UNCHANGED <<ReadPointer, ItemsPresentCount>>

WriteOverOldest(v) ==
    /\ IsFull /\ Mode = "DeleteOldestIfFullOnWrite"
    /\ Put(v)
    /\ ReadPointer' = Increment(ReadPointer)
    /\ UNCHANGED ItemsPresentCount

\* How many items the loop of DMF_RingBuffer_Enumerate visits: it leaves when
\* its pointer meets the write pointer again.
Visits ==
    IF ItemsPresentCount = 0 THEN 0
    ELSE IF ReadPointer < WritePointer THEN WritePointer - ReadPointer
    ELSE WritePointer - ReadPointer + ItemCount

Enumerated == [n \in 1 .. Visits |-> Items[After(n - 1)]]

-----------------------------------------------------------------------------
(* Methods that no Module of this project calls.                            *)

\* RingBuffer_Read.
Read ==
    /\ ItemsPresentCount > 0
    /\ ReadPointer' = Increment(ReadPointer)
    /\ ItemsPresentCount' = ItemsPresentCount - 1
    /\ UNCHANGED <<Items, WritePointer>>

\* DMF_RingBuffer_ReadAll: RingBuffer_Read until it fails.
ReadAll ==
    /\ ReadPointer' = After(ItemsPresentCount)
    /\ ItemsPresentCount' = 0
    /\ UNCHANGED <<Items, WritePointer>>

\* DMF_RingBuffer_Reorder: as many shifts to the left as there are items before
\* the oldest; then everything that is no item is erased.
Reorder ==
    /\ Items' = [i \in Places |-> IF i < ItemsPresentCount THEN Items[After(i)] ELSE Zero]
    /\ IF ItemsPresentCount = 0
          THEN UNCHANGED <<ReadPointer, WritePointer>>
          ELSE /\ ReadPointer' = 0
               /\ WritePointer' = IF IsFull THEN 0 ELSE ItemsPresentCount
    /\ UNCHANGED ItemsPresentCount
=============================================================================
