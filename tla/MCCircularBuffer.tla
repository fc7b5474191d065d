--------------------------- MODULE MCCircularBuffer ---------------------------
(***************************************************************************)
(* CircularBuffer for TLC: chunks of up to one byte more than the capacity. *)
(***************************************************************************)
EXTENDS CircularBuffer

MCChunks == UNION {[1..n -> Byte] : n \in 0 .. Capacity + 1}
MCSizes == 0 .. Capacity + 1
=============================================================================
