--------------------------- MODULE MCByteBuffer ---------------------------
(* A ring of three slots for three byte values, whose counters wrap at 8:   *)
(* small enough that the ring index wraps many times, large enough that a   *)
(* full, an empty and a partly filled ring occur at every index.            *)
EXTENDS ByteBuffer

MCByte == {0, 1, 2}
===========================================================================
