--------------------------- MODULE CircularBuffer ---------------------------
(***************************************************************************)
(* The ring of bytes between the serial line and the frame parser, class   *)
(* CircularBuffer of src/src/utils/circular_buffer.h, with the way that    *)
(* TransportLevelHandler::read_data fills it through reserve().            *)
(*                                                                         *)
(* head_ = tail_ in an empty buffer and in a full one; is_empty_ tells     *)
(* them apart.                                                             *)
(***************************************************************************)
EXTENDS Integers, Sequences

CONSTANTS Byte,
          Capacity,           \* capacity_, 128 at least in the code
          Chunks,             \* the runs of bytes pushed, or waiting in the stream
          Sizes               \* the numbers of bytes asked for

ASSUME BytesAssumption == Byte # {}
ASSUME CapacityAssumption == Capacity \in Nat \ {0}
ASSUME InputsAssumption == Chunks \subseteq Seq(Byte) /\ Sizes \subseteq Nat

VARIABLES is_empty_, buffer_, head_, tail_,
          result              \* what the last operation returned: a count, and bytes

ring == <<is_empty_, buffer_, head_, tail_>>
vars == <<ring, result>>

Slots == 0 .. Capacity - 1
Returned(n, bytes) == [count |-> n, bytes |-> bytes]

\* new T[capacity_] leaves the bytes as they are.
Init ==
  /\ is_empty_ = TRUE
  /\ buffer_ \in [Slots -> Byte]
  /\ head_ = 0
  /\ tail_ = 0
  /\ result = Returned(0, <<>>)

-----------------------------------------------------------------------------
(* The state of a ring as a record, for operations made of several steps.  *)

Ring == [is_empty: BOOLEAN, buffer: [Slots -> Byte], head: Slots, tail: Slots]
Here == [is_empty |-> is_empty_, buffer |-> buffer_, head |-> head_, tail |-> tail_]

Smaller(a, b) == IF a < b THEN a ELSE b

Slot(i) == i % Capacity

get_size(r) ==
  IF r.tail = r.head
    THEN IF r.is_empty THEN 0 ELSE Capacity
    ELSE IF r.head < r.tail THEN r.tail - r.head ELSE Capacity - r.head + r.tail

get_space(r) == Capacity - get_size(r)

\* operator[], for the n oldest bytes.
Contents(r, n) == [i \in 1 .. n |-> r.buffer[Slot(r.head + i - 1)]]

\* n bytes of items, from the one after the first k, are written at tail_ and on.
Written(r, items, k, n) ==
  [slot \in Slots |->
     LET i == Slot(slot + Capacity - r.tail)
     IN  IF i < n THEN items[k + i + 1] ELSE r.buffer[slot]]

\* drop() without its result.
Dropped(r, size) ==
  LET n == Smaller(size, get_size(r))
  IN  [r EXCEPT !.head = Slot(@ + n),
                !.is_empty = @ \/ n = get_size(r)]

\* How many bytes reserve(size) hands out: those up to the end of the array.
Reserved(r, size) == Smaller(size, Capacity - r.tail)

\* Mutant: a buffer filled through reserve() stays marked empty.
FilledUnmarked(r, items, k, size) ==
  LET n == Reserved(r, size)
  IN  [r EXCEPT !.buffer = Written(r, items, k, n), !.tail = Slot(@ + n)]

\* reserve(size), whose bytes the caller fills from items after the first k.
Filled(r, items, k, size) ==
  LET n == Reserved(r, size)
  IN  [r EXCEPT !.buffer = Written(r, items, k, n),
                !.tail = Slot(@ + n),
                !.is_empty = @ /\ n = 0]

Become(r) ==
  /\ is_empty_' = r.is_empty
  /\ buffer_' = r.buffer
  /\ head_' = r.head
  /\ tail_' = r.tail

-----------------------------------------------------------------------------
(* The operations                                                          *)

\* push(items, size), and push(item) for one byte.
push(items) ==
  LET n == Smaller(Len(items), get_space(Here))
  IN  /\ Become([Here EXCEPT !.buffer = Written(Here, items, 0, n),
                             !.tail = Slot(@ + n),
                             !.is_empty = @ /\ n = 0])
      /\ result' = Returned(n, <<>>)

pop(size) ==
  LET n == Smaller(size, get_size(Here))
  IN  /\ Become(Dropped(Here, size))
      /\ result' = Returned(n, Contents(Here, n))

drop(size) ==
  /\ Become(Dropped(Here, size))
  /\ result' = Returned(Smaller(size, get_size(Here)), <<>>)

clear ==
  /\ Become([is_empty |-> TRUE, buffer |-> buffer_, head |-> 0, tail |-> 0])
  /\ result' = Returned(0, <<>>)

\* Mutant: no room is made for the bytes that are read.
read_dataNoRoom(waiting) ==
  LET count == Smaller(Len(waiting), Capacity)
      one == Filled(Here, waiting, 0, count)
      n == Reserved(Here, count)
  IN  /\ Become(Filled(one, waiting, n, count - n))
      /\ result' = Returned(count, <<>>)

\* read_data(): at most Capacity of the waiting bytes are read; the oldest
\* bytes make room for them; they are read into two reserved runs when the
\* first ends at the end of the array.
read_data(waiting) ==
  LET count == Smaller(Len(waiting), Capacity)
      space == get_space(Here)
      room == IF count > space THEN Dropped(Here, count - space) ELSE Here
      n == Reserved(room, count)
      one == Filled(room, waiting, 0, count)
  IN  /\ Become(IF count > n THEN Filled(one, waiting, n, count - n) ELSE one)
      /\ result' = Returned(count, <<>>)

Next == \/ \E items \in Chunks : push(items) \/ read_data(items)
        \/ \E size \in Sizes : pop(size) \/ drop(size)
        \/ clear

Spec == Init /\ [][Next]_vars

-----------------------------------------------------------------------------
(* Properties                                                              *)

TypeOK == Here \in Ring

\* is_empty_ is set only where head_ has caught up with tail_: a buffer marked
\* empty with bytes in it would lose them, one not marked would return stale ones.
EmptyMeansCaughtUp == is_empty_ => head_ = tail_

\* Through wrapping, overflow and runs reserved in two pieces, the buffer is a
\* queue that keeps the newest bytes in order (ByteQueue), and every count and
\* byte that an operation returns is that queue's.
Queue == INSTANCE ByteQueue WITH bytes <- Contents(Here, get_size(Here)),
                                 result <- result
IsByteQueue == Queue!Spec
=============================================================================
