------------------------------ MODULE PacketStream ------------------------------
(***************************************************************************)
(* What a DMF_PingPongBuffer promises: a stream of at most BufferSize      *)
(* bytes, from which the Client takes packets. A packet stays as it was    *)
(* taken until the next one is taken or the stream is shifted. "size" is   *)
(* the size that the last Method told.                                     *)
(***************************************************************************)
EXTENDS Integers, Sequences

CONSTANTS Bytes, BufferSize

VARIABLES collected, packet, size

\* The n bytes of s that follow the first ones.
Part(s, first, n) == [i \in 1 .. n |-> s[first + i]]

Init == collected = <<>> /\ packet = <<>> /\ size = 0

Consume(start, length) ==
    /\ start + length <= Len(collected)
    /\ packet' = Part(collected, start, length)
    /\ collected' = Part(collected, start + length, Len(collected) - start - length)
    /\ UNCHANGED size

Shift(start) ==
    /\ start <= Len(collected)
    /\ packet' = <<>>
    /\ collected' = Part(collected, start, Len(collected) - start)
    /\ UNCHANGED size

Write(data) ==
    /\ Len(collected) + Len(data) <= BufferSize
    /\ collected' = collected \o data
    /\ size' = Len(collected')
    /\ UNCHANGED packet

TellSize == size' = Len(collected) /\ UNCHANGED <<collected, packet>>

Reset == collected' = <<>> /\ UNCHANGED <<packet, size>>

Next ==
    \/ \E start, length \in 0 .. BufferSize : Consume(start, length)
    \/ \E start \in 0 .. BufferSize : Shift(start)
    \/ \E data \in Seq(Bytes) : Write(data)
    \/ TellSize \/ Reset

Spec == Init /\ [][Next]_<<collected, packet, size>>
=============================================================================
