------------------------------ MODULE ByteQueue ------------------------------
(***************************************************************************)
(* What a CircularBuffer promises: a first-in first-out queue of at most   *)
(* Capacity bytes.  `result` is what the last operation returned: a count, *)
(* and for pop the bytes.                                                  *)
(***************************************************************************)
EXTENDS Naturals, Sequences

CONSTANTS Byte, Capacity,
          Chunks,             \* the runs of bytes pushed or read
          Sizes               \* the numbers of bytes asked for

VARIABLES bytes, result
vars == <<bytes, result>>

Returned(n, b) == [count |-> n, bytes |-> b]

Init == bytes = <<>> /\ result = Returned(0, <<>>)

Fits(n, m) == IF n < m THEN n ELSE m
First(s, n) == SubSeq(s, 1, n)
After(s, n) == SubSeq(s, n + 1, Len(s))

\* As many of the items as there is space for.
push(items) ==
  LET n == Fits(Len(items), Capacity - Len(bytes))
  IN  bytes' = bytes \o First(items, n) /\ result' = Returned(n, <<>>)

\* The oldest bytes, handed over or thrown away.
pop(size) ==
  LET n == Fits(size, Len(bytes))
  IN  bytes' = After(bytes, n) /\ result' = Returned(n, First(bytes, n))

drop(size) ==
  LET n == Fits(size, Len(bytes))
  IN  bytes' = After(bytes, n) /\ result' = Returned(n, <<>>)

clear == bytes' = <<>> /\ result' = Returned(0, <<>>)

\* The first Capacity bytes of a chunk come in; the oldest bytes make room.
read(chunk) ==
  LET n == Fits(Len(chunk), Capacity)
      all == bytes \o First(chunk, n)
  IN  /\ bytes' = After(all, Len(all) - Fits(Len(all), Capacity))
      /\ result' = Returned(n, <<>>)

Next == \/ \E items \in Chunks : push(items) \/ read(items)
        \/ \E size \in Sizes : pop(size) \/ drop(size)
        \/ clear

Spec == Init /\ [][Next]_vars
=============================================================================
