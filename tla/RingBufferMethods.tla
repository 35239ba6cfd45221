--------------------------- MODULE RingBufferMethods ---------------------------
(***************************************************************************)
(* A DMF_RingBuffer whose Methods are called in any order, and the queue   *)
(* that it implements.                                                     *)
(***************************************************************************)
EXTENDS RingBuffer

VARIABLE target         \* what the last Method gave back

vars == <<ringVars, target>>

Init == RingInit /\ target = <<>>

CallWrite(v) == (Write(v) \/ WriteOverOldest(v)) /\ UNCHANGED target

CallRead == Read /\ target' = <<Items[ReadPointer]>>

CallReadAll == ReadAll /\ target' = [n \in 1 .. ItemsPresentCount |-> Items[After(n - 1)]]

CallEnumerate == target' = Enumerated /\ UNCHANGED ringVars

CallReorder == Reorder /\ UNCHANGED target

Next ==
    \/ \E v \in Values : CallWrite(v)
    \/ CallRead \/ CallReadAll \/ CallEnumerate \/ CallReorder

Spec == Init /\ [][Next]_vars

-----------------------------------------------------------------------------
\* The pointers stay inside the memory and, with the count, describe the same
\* items: the assertions of RingBuffer_ReadPointerIncrement, RingBuffer_Write
\* and RingBuffer_Read. When they meet, the count tells full from empty.
PointersAgree ==
    /\ ReadPointer \in Places /\ WritePointer \in Places
    /\ ItemsPresentCount \in 0 .. ItemCount
    /\ WritePointer = After(ItemsPresentCount)

\* The items present, oldest first.
Contents == [n \in 1 .. ItemsPresentCount |-> Items[After(n - 1)]]

Queue == INSTANCE ItemQueue WITH queue <- Contents

\* Whatever is written, read, enumerated and reordered in whatever order, the
\* ring is a queue: no Method loses an item, repeats it or changes the order.
ImplementsQueue == Queue!Spec
=============================================================================
