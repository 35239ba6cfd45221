------------------------------- MODULE ItemQueue -------------------------------
(***************************************************************************)
(* What a DMF_RingBuffer promises: a queue of at most ItemCount items. A   *)
(* write into a full queue fails or replaces the oldest item, as the mode  *)
(* says. "target" is what the last Method gave back.                       *)
(***************************************************************************)
EXTENDS Naturals, Sequences

CONSTANTS ItemCount, Mode, Values

VARIABLES queue, target

Init == queue = <<>> /\ target = <<>>

Write(v) ==
    /\ Len(queue) < ItemCount
    /\ queue' = Append(queue, v)
    /\ UNCHANGED target

WriteOverOldest(v) ==
    /\ Mode = "DeleteOldestIfFullOnWrite"
    /\ Len(queue) = ItemCount
    /\ queue' = Append(Tail(queue), v)
    /\ UNCHANGED target

Read ==
    /\ queue # <<>>
    /\ target' = <<Head(queue)>>
    /\ queue' = Tail(queue)

ReadAll == target' = queue /\ queue' = <<>>

Enumerate == target' = queue /\ UNCHANGED queue

Next ==
    \/ \E v \in Values : Write(v) \/ WriteOverOldest(v)
    \/ Read \/ ReadAll \/ Enumerate

Spec == Init /\ [][Next]_<<queue, target>>
=============================================================================
