------------------------ MODULE MCThreadedBufferQueue ------------------------
(* Instances of ThreadedBufferQueue for TLC: two callers, two buffers.        *)
EXTENDS ThreadedBufferQueue
CONSTANTS b1, b2, c1, c2
MCBuffers == {b1, b2}
MCCallers == {c1, c2}
=============================================================================
