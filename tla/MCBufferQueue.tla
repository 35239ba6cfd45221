---------------------------- MODULE MCBufferQueue ----------------------------
(* Instances of BufferQueue for TLC: memory for three buffers, of which the   *)
(* .cfg says how many are the producer's own.                                 *)
EXTENDS BufferQueue
CONSTANTS b1, b2, b3
MCBuffers == {b1, b2, b3}
=============================================================================
