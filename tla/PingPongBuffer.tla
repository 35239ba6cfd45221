---------------------------- MODULE PingPongBuffer ----------------------------
(***************************************************************************)
(* DMF_PingPongBuffer: data is collected in one of two buffers and handed  *)
(* to the Client as packets in place, while what follows is copied to the  *)
(* other buffer, where collecting goes on (Modules.Library/                *)
(* Dmf_PingPongBuffer.c). Every Method runs under the lock of the Module   *)
(* and is one step. BufferOffsetRead is left out: it is zero whenever the  *)
(* lock is free. A Client shifts and consumes what is there, as the test   *)
(* Module does after DMF_PingPongBuffer_Get has told it the size.          *)
(***************************************************************************)
EXTENDS Integers, Sequences

CONSTANTS Bytes, Zero,
          BufferSize            \* of the Module's configuration

VARIABLES Buffer, PingBufferIndex, BufferOffsetWrite,
          packet,               \* where the packet is that the Client was given last
          size                  \* the size that the last Method told

vars == <<Buffer, PingBufferIndex, BufferOffsetWrite, packet, size>>

Offsets == 0 .. BufferSize - 1

Ping == Buffer[PingBufferIndex]
PongIndex == 1 - PingBufferIndex
WriteOffset == BufferOffsetWrite[PingBufferIndex]

Place(index, start, length) == [index |-> index, start |-> start, length |-> length]

\* PingPongBuffer_PingPongBufferCreate.
Init ==
    /\ Buffer = [b \in {0, 1} |-> [i \in Offsets |-> Zero]]
    /\ PingBufferIndex = 0
    /\ BufferOffsetWrite = [b \in {0, 1} |-> 0]
    /\ packet = Place(1, 0, 0)
    /\ size = 0

\* The end of Ping, from an offset on, becomes the start of Pong.
Copied(from) ==
    [Buffer EXCEPT ![PongIndex] =
        [i \in Offsets |-> IF i < WriteOffset - from THEN Ping[from + i] ELSE Buffer[PongIndex][i]]]

\* DMF_PingPongBuffer_Consume with PingPongBuffer_Switch: the buffer with the
\* packet becomes Pong.
Consume(StartOffset, PacketLength) ==
    /\ StartOffset + PacketLength <= WriteOffset
    /\ Buffer' = Copied(StartOffset + PacketLength)
    /\ packet' = Place(PingBufferIndex, StartOffset, PacketLength)
    /\ PingBufferIndex' = PongIndex
    /\ BufferOffsetWrite' = [b \in {0, 1} |->
          IF b = PongIndex THEN WriteOffset - StartOffset - PacketLength ELSE 0]
    /\ UNCHANGED size

\* DMF_PingPongBuffer_Shift; the copy may hit the packet, which the Client has
\* finished with.
Shift(StartOffset) ==
    /\ StartOffset <= WriteOffset
    /\ Buffer' = Copied(StartOffset)
    /\ packet' = Place(PingBufferIndex, 0, 0)
    /\ PingBufferIndex' = PongIndex
    /\ BufferOffsetWrite' = [BufferOffsetWrite EXCEPT ![PongIndex] = WriteOffset - StartOffset]
    /\ UNCHANGED size

\* DMF_PingPongBuffer_Write.
Write(data) ==
    /\ WriteOffset + Len(data) <= BufferSize
    /\ Buffer' = [Buffer EXCEPT ![PingBufferIndex] =
          [i \in Offsets |-> IF i \in WriteOffset .. WriteOffset + Len(data) - 1
                               THEN data[i - WriteOffset + 1] ELSE Ping[i]]]
    /\ BufferOffsetWrite' = [BufferOffsetWrite EXCEPT ![PingBufferIndex] = WriteOffset + Len(data)]
    /\ size' = WriteOffset + Len(data)
    /\ UNCHANGED <<PingBufferIndex, packet>>

\* The data does not fit, or (below) the Client asks: the size is what it was.
WriteFails(data) ==
    /\ WriteOffset + Len(data) > BufferSize
    /\ size' = WriteOffset
    /\ UNCHANGED <<Buffer, PingBufferIndex, BufferOffsetWrite, packet>>

Get ==
    /\ size' = WriteOffset
    /\ UNCHANGED <<Buffer, PingBufferIndex, BufferOffsetWrite, packet>>

Reset ==
    /\ BufferOffsetWrite' = [BufferOffsetWrite EXCEPT ![PingBufferIndex] = 0]
    /\ UNCHANGED <<Buffer, PingBufferIndex, packet, size>>

Next ==
    \/ \E StartOffset, PacketLength \in 0 .. BufferSize : Consume(StartOffset, PacketLength)
    \/ \E StartOffset \in 0 .. BufferSize : Shift(StartOffset)
    \/ \E data \in Seq(Bytes) : Write(data) \/ WriteFails(data)
    \/ Get \/ Reset

Spec == Init /\ [][Next]_vars

-----------------------------------------------------------------------------
\* The offsets stay inside the buffers, and the packet that the Client has is
\* never in the buffer that collects.
OffsetsAreInside ==
    /\ PingBufferIndex \in {0, 1}
    /\ WriteOffset \in 0 .. BufferSize
    /\ packet.index = PongIndex
    /\ packet.start \in Nat /\ packet.length \in Nat
    /\ packet.start + packet.length <= BufferSize

\* What has been collected, and what the Client finds where its packet is.
Collected == [i \in 1 .. WriteOffset |-> Ping[i - 1]]

Packet == [i \in 1 .. packet.length |-> Buffer[packet.index][packet.start + i - 1]]

Stream == INSTANCE PacketStream WITH collected <- Collected, packet <- Packet

\* The two buffers are one stream, and the packet stays as it is while the next
\* one is collected, until a Consume or a Shift replaces it.
ImplementsStream == Stream!Spec
=============================================================================
