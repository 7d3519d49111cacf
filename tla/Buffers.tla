------------------------------ MODULE Buffers ------------------------------
(* The contents of a cBuffer as a sequence, oldest byte first, and what the *)
(* calls of buffer.c do to them.                                            *)
EXTENDS Naturals, Sequences

\* Mutant: "<=" for "<" in bufferAddToEnd.
HasRoomForOneMore(q, cap) == Len(q) <= cap

\* bufferIsNotFull, for a buffer of capacity cap.
HasRoom(q, cap) == Len(q) < cap

\* bufferAddToEnd: a full buffer drops the byte.
Appended(q, b, cap) == IF HasRoom(q, cap) THEN Append(q, b) ELSE q

\* bufferDumpFromFront: the n oldest bytes go, or all there are.
Dumped(q, n) == IF n < Len(q) THEN SubSeq(q, n + 1, Len(q)) ELSE <<>>
============================================================================
