------------------------- MODULE CircularBufferProofs -------------------------
(***************************************************************************)
(* The ring is a bounded queue of bytes, for every capacity, every run of  *)
(* bytes and every sequence of operations.                                 *)
(*                                                                         *)
(* Everything the operations do to a ring is one of two things: bytes are  *)
(* added after the newest (AddedIsAppended) or dropped from the oldest     *)
(* (DroppedIsRest).                                                        *)
(***************************************************************************)
EXTENDS CircularBuffer, SequenceTheorems, TLAPS

\* A ring that is told apart from a full one when it is empty.
Sound(r) == r \in Ring /\ (r.is_empty => r.head = r.tail)

\* All bytes of a ring, the oldest first.
Held(r) == Contents(r, get_size(r))

\* n bytes of items, from the one after the first k, are behind the newest.
Added(r, items, k, n) ==
  [r EXCEPT !.buffer = Written(r, items, k, n),
            !.tail = Slot(@ + n),
            !.is_empty = @ /\ n = 0]

-----------------------------------------------------------------------------
(* Positions                                                               *)

\* Positions are below twice the capacity wherever Slot is used.
LEMMA SlotWraps ==
  ASSUME NEW i \in 0 .. 2 * Capacity - 1
  PROVE  Slot(i) = IF i < Capacity THEN i ELSE i - Capacity
  BY CapacityAssumption DEF Slot

LEMMA SlotIsASlot ==
  ASSUME NEW i \in 0 .. 2 * Capacity - 1
  PROVE  Slot(i) \in 0 .. Capacity - 1
  BY SlotWraps, CapacityAssumption

\* From tail_ the same bytes are counted as from head_, m bytes before.
LEMMA Distances ==
  ASSUME NEW h \in 0 .. Capacity - 1, NEW t \in 0 .. Capacity - 1,
         NEW m \in 0 .. Capacity, Slot(h + m) = t
  PROVE  /\ \A n \in 0 .. Capacity - m : Slot(h + (m + n)) = Slot(t + n)
         /\ \A i \in 1 .. m : Slot(h + i - 1) = Slot(t + (Capacity + i - 1 - m))
         /\ \A j \in 1 .. Capacity - m : Slot(h + (m + j) - 1) = Slot(t + (j - 1))
<1>. USE CapacityAssumption
<1>1. t = IF h + m < Capacity THEN h + m ELSE h + m - Capacity
  <2>. h + m \in 0 .. 2 * Capacity - 1
    OBVIOUS
  <2>. QED
    BY SlotWraps
<1>2. ASSUME NEW n \in 0 .. Capacity - m PROVE Slot(h + (m + n)) = Slot(t + n)
  <2>. h + (m + n) \in 0 .. 2 * Capacity - 1 /\ t + n \in 0 .. 2 * Capacity - 1
    OBVIOUS
  <2>1. Slot(h + (m + n)) = IF h + (m + n) < Capacity THEN h + (m + n) ELSE h + (m + n) - Capacity
    BY SlotWraps
  <2>2. Slot(t + n) = IF t + n < Capacity THEN t + n ELSE t + n - Capacity
    BY SlotWraps
  <2>. QED
    BY <1>1, <2>1, <2>2
<1>3. ASSUME NEW i \in 1 .. m
      PROVE  Slot(h + i - 1) = Slot(t + (Capacity + i - 1 - m))
  <2>. DEFINE e == Capacity + i - 1 - m
  <2>1. h + i - 1 \in 0 .. 2 * Capacity - 1 /\ t + e \in 0 .. 2 * Capacity - 1
    OBVIOUS
  <2>2. Slot(h + i - 1) = IF h + i - 1 < Capacity THEN h + i - 1 ELSE h + i - 1 - Capacity
    BY <2>1, SlotWraps
  <2>3. Slot(t + e) = IF t + e < Capacity THEN t + e ELSE t + e - Capacity
    BY <2>1, SlotWraps
  <2>. QED
    BY <1>1, <2>2, <2>3
<1>4. ASSUME NEW j \in 1 .. Capacity - m
      PROVE  Slot(h + (m + j) - 1) = Slot(t + (j - 1))
  <2>1. m + j - 1 \in Nat /\ j - 1 \in 0 .. Capacity - m
    OBVIOUS
  <2>2. h + (m + j) - 1 = h + (m + (j - 1))
    OBVIOUS
  <2>. QED
    BY <1>2, <2>1, <2>2
<1>. QED
  BY <1>2, <1>3, <1>4

LEMMA SoundFields ==
  ASSUME NEW r, Sound(r)
  PROVE  /\ r.is_empty \in BOOLEAN /\ r.buffer \in [Slots -> Byte]
         /\ r.head \in 0 .. Capacity - 1 /\ r.tail \in 0 .. Capacity - 1
         /\ r.is_empty => r.head = r.tail
         /\ Capacity \in Nat \ {0}
  BY CapacityAssumption DEF Sound, Ring, Slots

\* The newest byte is get_size bytes after the oldest, whatever wraps between.
LEMMA SizeReachesTail ==
  ASSUME NEW r, Sound(r)
  PROVE  /\ get_size(r) \in 0 .. Capacity
         /\ Slot(r.head + get_size(r)) = r.tail
         /\ r.is_empty <=> get_size(r) = 0
<1>. USE SoundFields
<1>1. get_size(r) \in 0 .. Capacity /\ (r.is_empty <=> get_size(r) = 0)
  BY DEF get_size
<1>2. r.head + get_size(r) \in 0 .. 2 * Capacity - 1
  BY <1>1
<1>3. Slot(r.head + get_size(r)) = r.tail
  BY <1>1, <1>2, SlotWraps DEF get_size
<1>. QED
  BY <1>1, <1>3

\* There is no other distance than that from the oldest to the newest byte.
LEMMA SizeIsDistance ==
  ASSUME NEW r, Sound(r), NEW n \in 0 .. Capacity,
         Slot(r.head + n) = r.tail, r.is_empty <=> n = 0
  PROVE  get_size(r) = n
<1>. USE SoundFields
<1>1. r.head + n \in 0 .. 2 * Capacity - 1
  OBVIOUS
<1>. QED
  BY <1>1, SlotWraps DEF get_size

LEMMA ContentsAre ==
  ASSUME NEW r, Sound(r), NEW n \in 0 .. Capacity
  PROVE  /\ Contents(r, n) \in Seq(Byte) /\ Len(Contents(r, n)) = n
         /\ \A i \in 1 .. n : Contents(r, n)[i] = r.buffer[Slot(r.head + i - 1)]
<1>. USE SoundFields
<1>1. \A i \in 1 .. n : r.head + i - 1 \in 0 .. 2 * Capacity - 1
  OBVIOUS
<1>2. \A i \in 1 .. n : Slot(r.head + i - 1) \in Slots
  BY <1>1, SlotIsASlot DEF Slots
<1>3. \A i \in 1 .. n : r.buffer[Slot(r.head + i - 1)] \in Byte
  BY <1>2
<1>4. Contents(r, n) \in [1 .. n -> Byte]
  BY <1>3 DEF Contents
<1>5. Contents(r, n) \in Seq(Byte) /\ Len(Contents(r, n)) = n
  BY <1>4
<1>. QED
  BY <1>5 DEF Contents

-----------------------------------------------------------------------------
(* Adding and dropping                                                     *)

LEMMA WrittenAre ==
  ASSUME NEW r, Sound(r), NEW items \in Seq(Byte), NEW k \in Nat,
         NEW n \in 0 .. Capacity, k + n <= Len(items)
  PROVE  /\ Written(r, items, k, n) \in [Slots -> Byte]
         /\ \A d \in 0 .. Capacity - 1 :
              Written(r, items, k, n)[Slot(r.tail + d)] =
                IF d < n THEN items[k + d + 1] ELSE r.buffer[Slot(r.tail + d)]
<1>. USE SoundFields
<1>0. Len(items) \in Nat /\ \A i \in 1 .. Len(items) : items[i] \in Byte
  BY LenProperties, ElementOfSeq
<1>1. \A slot \in Slots : Slot(slot + Capacity - r.tail) \in Nat
  <2>. SUFFICES ASSUME NEW slot \in Slots PROVE Slot(slot + Capacity - r.tail) \in Nat
    OBVIOUS
  <2>1. slot + Capacity - r.tail \in 0 .. 2 * Capacity - 1
    BY DEF Slots
  <2>. QED
    BY <2>1, SlotWraps
<1>2. Written(r, items, k, n) \in [Slots -> Byte]
  <2>. SUFFICES ASSUME NEW slot \in Slots,
                       Slot(slot + Capacity - r.tail) < n
                PROVE  items[k + Slot(slot + Capacity - r.tail) + 1] \in Byte
    BY DEF Written
  <2>1. k + Slot(slot + Capacity - r.tail) + 1 \in 1 .. Len(items)
    BY <1>0, <1>1
  <2>. QED
    BY <1>0, <2>1
<1>3. ASSUME NEW d \in 0 .. Capacity - 1
      PROVE  Written(r, items, k, n)[Slot(r.tail + d)] =
               IF d < n THEN items[k + d + 1] ELSE r.buffer[Slot(r.tail + d)]
  <2>1. r.tail + d \in 0 .. 2 * Capacity - 1
    OBVIOUS
  <2>2. /\ Slot(r.tail + d) \in 0 .. Capacity - 1
        /\ Slot(r.tail + d) = IF r.tail + d < Capacity THEN r.tail + d ELSE r.tail + d - Capacity
    BY <2>1, SlotWraps, SlotIsASlot
  <2>. DEFINE e == Slot(r.tail + d) + Capacity - r.tail
  <2>3. e \in 0 .. 2 * Capacity - 1 /\ (e = d \/ e = d + Capacity)
    <3>. DEFINE p == Slot(r.tail + d)
                t == r.tail
    <3>1. p = t + d \/ p = t + d - Capacity
      BY <2>2
    <3>2. p \in 0 .. Capacity - 1 /\ t \in 0 .. Capacity - 1 /\ Capacity \in Nat \ {0}
      BY <2>2
    <3>. HIDE DEF p, t
    <3>3. p + Capacity - t \in 0 .. 2 * Capacity - 1
          /\ (p + Capacity - t = d \/ p + Capacity - t = d + Capacity)
      BY <3>1, <3>2
    <3>. QED
      BY <3>3 DEF p, t
  <2>4. Slot(e) = d
    <3>1. Slot(e) = IF e < Capacity THEN e ELSE e - Capacity
      BY <2>3, SlotWraps
    <3>. HIDE DEF e
    <3>. QED
      BY <2>3, <3>1
  <2>. QED
    BY <2>2, <2>4 DEF Written, Slots
<1>. QED
  BY <1>2, <1>3

\* Bytes that fit in come behind all others, and no other byte changes.
LEMMA AddedIsAppended ==
  ASSUME NEW r, Sound(r), NEW items \in Seq(Byte), NEW k \in Nat,
         NEW n \in 0 .. Capacity - get_size(r), k + n <= Len(items)
  PROVE  /\ Sound(Added(r, items, k, n))
         /\ Held(Added(r, items, k, n)) = Held(r) \o SubSeq(items, k + 1, k + n)
<1>. DEFINE a == Added(r, items, k, n)
            m == get_size(r)
            h == r.head
            t == r.tail
            more == SubSeq(items, k + 1, k + n)
            buffer == Written(r, items, k, n)
<1>1. /\ m \in 0 .. Capacity /\ n \in 0 .. Capacity - m /\ n \in 0 .. Capacity
      /\ m + n \in 0 .. Capacity
      /\ Slot(h + m) = t /\ (r.is_empty <=> m = 0)
      /\ h \in 0 .. Capacity - 1 /\ t \in 0 .. Capacity - 1 /\ Capacity \in Nat \ {0}
  <2>1. m \in 0 .. Capacity /\ Capacity \in Nat
    BY SizeReachesTail, CapacityAssumption
  <2>2. n \in 0 .. Capacity /\ m + n \in 0 .. Capacity
    BY <2>1
  <2>. QED
    BY <2>1, <2>2, SizeReachesTail, SoundFields
<1>2. /\ a.head = h /\ a.tail = Slot(t + n) /\ a.buffer = buffer
      /\ a.is_empty \in BOOLEAN /\ (a.is_empty <=> r.is_empty /\ n = 0)
      /\ a = [is_empty |-> a.is_empty, buffer |-> a.buffer, head |-> a.head, tail |-> a.tail]
  <2>1. r \in [is_empty : BOOLEAN, buffer : [Slots -> Byte], head : Slots, tail : Slots]
    BY DEF Sound, Ring
  <2>2. a = [r EXCEPT !.buffer = buffer, !.tail = Slot(t + n),
                      !.is_empty = r.is_empty /\ n = 0]
    BY DEF Added
  <2>. HIDE DEF a, buffer, t
  <2>3. a = [is_empty |-> (r.is_empty /\ n = 0), buffer |-> buffer, head |-> r.head,
             tail |-> Slot(t + n)]
    BY <2>1, <2>2
  <2>. QED
    BY <2>3
<1>3. buffer \in [Slots -> Byte]
      /\ \A d \in 0 .. Capacity - 1 :
           buffer[Slot(t + d)] = IF d < n THEN items[k + d + 1] ELSE r.buffer[Slot(t + d)]
  BY <1>1, WrittenAre, SMTT(30)
<1>4. Held(r) \in Seq(Byte) /\ Len(Held(r)) = m
      /\ \A i \in 1 .. m : Held(r)[i] = r.buffer[Slot(h + i - 1)]
  BY <1>1, ContentsAre DEF Held
<1>5. /\ more \in Seq(Byte) /\ Len(more) = n
      /\ \A j \in 1 .. n : more[j] = items[k + j]
  <2>1. Len(items) \in Nat /\ \A i \in 1 .. Len(items) : items[i] \in Byte
    BY LenProperties, ElementOfSeq
  <2>2. \A i \in k + 1 .. k + n : items[i] \in Byte
    BY <1>1, <2>1
  <2>3. /\ more \in Seq(Byte) /\ Len(more) = IF k + 1 <= k + n THEN k + n - (k + 1) + 1 ELSE 0
        /\ \A j \in 1 .. k + n - (k + 1) + 1 : more[j] = items[k + 1 + j - 1]
    BY <1>1, <2>2, SubSeqProperties
  <2>4. k + n - (k + 1) + 1 = n /\ (k + 1 <= k + n <=> n # 0)
    BY <1>1
  <2>5. \A j \in 1 .. n : k + 1 + j - 1 = k + j
    BY <1>1
  <2>. HIDE DEF more
  <2>. QED
    BY <1>1, <2>3, <2>4, <2>5
<1>. HIDE DEF a, m, h, t, more, buffer
<1>6. Slot(t + n) \in 0 .. Capacity - 1
  <2>. t + n \in 0 .. 2 * Capacity - 1
    BY <1>1
  <2>. QED
    BY SlotIsASlot
<1>7. Sound(a)
  <2>1. r.is_empty \in BOOLEAN /\ (r.is_empty => h = t)
    BY SoundFields DEF h, t
  <2>2. a.is_empty => a.head = a.tail
    <3>. SUFFICES ASSUME a.is_empty PROVE a.head = a.tail
      OBVIOUS
    <3>1. n = 0 /\ h = t /\ m = 0
      BY <1>1, <1>2, <2>1
    <3>. QED
      BY <1>1, <1>2, <3>1
  <2>3. a \in Ring
    BY <1>1, <1>2, <1>3, <1>6, <2>1 DEF Ring, Slots
  <2>. QED
    BY <2>2, <2>3 DEF Sound
<1>8. get_size(a) = m + n
  <2>1. Slot(a.head + (m + n)) = a.tail
    BY <1>1, <1>2, Distances, SMTT(30)
  <2>2. a.is_empty <=> m + n = 0
    <3>. m + n = 0 <=> m = 0 /\ n = 0
      BY <1>1
    <3>. QED
      BY <1>1, <1>2
  <2>. QED
    BY <1>1, <1>7, <2>1, <2>2, SizeIsDistance
<1>9. /\ Held(a) \in Seq(Byte) /\ Len(Held(a)) = m + n
      /\ \A i \in 1 .. m + n : Held(a)[i] = buffer[Slot(h + i - 1)]
  BY <1>1, <1>2, <1>7, <1>8, ContentsAre, SMTT(30) DEF Held
<1>10. ASSUME NEW i \in 1 .. m
       PROVE  buffer[Slot(h + i - 1)] = r.buffer[Slot(h + i - 1)]
  <2>. DEFINE d == Capacity + i - 1 - m
  <2>1. d \in 0 .. Capacity - 1 /\ ~(d < n)
    BY <1>1
  <2>2. Slot(h + i - 1) = Slot(t + d)
    <3>1. \A l \in 1 .. m : Slot(h + l - 1) = Slot(t + (Capacity + l - 1 - m))
      BY <1>1, Distances
    <3>. QED
      BY <3>1
  <2>. HIDE DEF d
  <2>. QED
    BY <1>3, <2>1, <2>2
<1>11. ASSUME NEW j \in 1 .. n
       PROVE  buffer[Slot(h + (m + j) - 1)] = items[k + j]
  <2>. DEFINE d == j - 1
  <2>1. d \in 0 .. Capacity - 1 /\ d < n /\ k + d + 1 = k + j /\ j \in 1 .. Capacity - m
    BY <1>1
  <2>2. Slot(h + (m + j) - 1) = Slot(t + d)
    <3>1. \A l \in 1 .. Capacity - m : Slot(h + (m + l) - 1) = Slot(t + (l - 1))
      BY <1>1, Distances
    <3>. QED
      BY <2>1, <3>1
  <2>. HIDE DEF d
  <2>. QED
    BY <1>3, <2>1, <2>2
<1>12. Held(a) = Held(r) \o more
  <2>1. /\ Held(r) \o more \in Seq(Byte) /\ Len(Held(r) \o more) = m + n
        /\ \A i \in 1 .. m + n :
             (Held(r) \o more)[i] = IF i <= m THEN Held(r)[i] ELSE more[i - m]
    BY <1>4, <1>5, ConcatProperties
  <2>2. ASSUME NEW i \in 1 .. m + n PROVE Held(a)[i] = (Held(r) \o more)[i]
    <3>1. CASE i <= m
      <4>. i \in 1 .. m
        BY <1>1, <3>1
      <4>. QED
        BY <1>4, <1>9, <1>10, <2>1, <3>1
    <3>2. CASE ~(i <= m)
      <4>1. i - m \in 1 .. n /\ i = m + (i - m)
        BY <1>1, <3>2
      <4>2. Held(a)[i] = items[k + (i - m)]
        BY <1>9, <1>11, <4>1
      <4>. QED
        BY <1>5, <2>1, <3>2, <4>1, <4>2
    <3>. QED
      BY <3>1, <3>2
  <2>. QED
    BY <1>9, <2>1, <2>2, SeqEqual
<1>. QED
  BY <1>7, <1>12 DEF a, more

\* Bytes are dropped from the oldest on, and no other byte changes.
LEMMA DroppedIsRest ==
  ASSUME NEW r, Sound(r), NEW size \in Nat
  PROVE  LET n == Smaller(size, get_size(r))
         IN  /\ Sound(Dropped(r, size))
             /\ get_size(Dropped(r, size)) = get_size(r) - n
             /\ Held(Dropped(r, size)) = SubSeq(Held(r), n + 1, get_size(r))
<1>. DEFINE m == get_size(r)
            n == Smaller(size, m)
            d == Dropped(r, size)
            h == r.head
            t == Slot(h + n)
<1>1. /\ m \in 0 .. Capacity /\ Slot(h + m) = r.tail /\ (r.is_empty <=> m = 0)
      /\ h \in 0 .. Capacity - 1 /\ r.tail \in 0 .. Capacity - 1 /\ Capacity \in Nat \ {0}
  BY SizeReachesTail, SoundFields
<1>2. n \in 0 .. m /\ n \in 0 .. Capacity /\ m - n \in 0 .. Capacity - n
      /\ m - n \in 0 .. Capacity /\ n + (m - n) = m
  BY <1>1 DEF Smaller
<1>3. /\ d.head = t /\ d.tail = r.tail /\ d.buffer = r.buffer
      /\ d.is_empty \in BOOLEAN /\ (d.is_empty <=> r.is_empty \/ n = m)
      /\ d = [is_empty |-> d.is_empty, buffer |-> d.buffer, head |-> d.head, tail |-> d.tail]
  <2>1. r \in [is_empty : BOOLEAN, buffer : [Slots -> Byte], head : Slots, tail : Slots]
    BY DEF Sound, Ring
  <2>2. d = [r EXCEPT !.head = t, !.is_empty = r.is_empty \/ n = m]
    BY DEF Dropped
  <2>. HIDE DEF d, t, n, m
  <2>3. d = [is_empty |-> (r.is_empty \/ n = m), buffer |-> r.buffer, head |-> t,
             tail |-> r.tail]
    BY <2>1, <2>2
  <2>. QED
    BY <2>3
<1>4. t \in 0 .. Capacity - 1 /\ Slot(h + n) = t
  <2>. h + n \in 0 .. 2 * Capacity - 1
    BY <1>1, <1>2
  <2>. QED
    BY SlotIsASlot
<1>. HIDE DEF d, n, m, h, t
<1>5. Slot(t + (m - n)) = r.tail
  <2>1. \A p \in 0 .. Capacity - n : Slot(h + (n + p)) = Slot(t + p)
    <3>. /\ h \in 0 .. Capacity - 1 /\ t \in 0 .. Capacity - 1
         /\ n \in 0 .. Capacity /\ Slot(h + n) = t
      BY <1>1, <1>2, <1>4
    <3>. QED
      BY Distances
  <2>. DEFINE p == m - n
  <2>2. p \in 0 .. Capacity - n /\ n + p = m
    BY <1>2
  <2>. HIDE DEF p
  <2>3. Slot(t + p) = r.tail
    BY <1>1, <2>1, <2>2
  <2>. QED
    BY <2>3 DEF p
<1>6. \A i \in 1 .. m - n : Slot(h + (n + i) - 1) = Slot(t + (i - 1))
  <2>1. \A i \in 1 .. Capacity - n : Slot(h + (n + i) - 1) = Slot(t + (i - 1))
    <3>. /\ h \in 0 .. Capacity - 1 /\ t \in 0 .. Capacity - 1
         /\ n \in 0 .. Capacity /\ Slot(h + n) = t
      BY <1>1, <1>2, <1>4
    <3>. QED
      BY Distances
  <2>2. \A i \in 1 .. m - n : i \in 1 .. Capacity - n
    BY <1>1, <1>2
  <2>. QED
    BY <2>1, <2>2
<1>7. Sound(d)
  <2>1. d.is_empty => d.head = d.tail
    <3>. SUFFICES ASSUME d.is_empty PROVE d.head = d.tail
      OBVIOUS
    <3>1. n = m
      BY <1>1, <1>2, <1>3
    <3>. QED
      BY <1>1, <1>3, <3>1 DEF t
  <2>2. d \in Ring
    BY <1>1, <1>3, <1>4, SoundFields DEF Ring, Slots
  <2>. QED
    BY <2>1, <2>2 DEF Sound
<1>8. get_size(d) = m - n
  <2>1. d.is_empty <=> m - n = 0
    <3>. m - n = 0 <=> n = m
      BY <1>1, <1>2
    <3>. m = 0 => n = m
      BY <1>1, <1>2
    <3>. QED
      BY <1>1, <1>3
  <2>. QED
    BY <1>2, <1>3, <1>5, <1>7, <2>1, SizeIsDistance
<1>9. /\ Held(d) \in Seq(Byte) /\ Len(Held(d)) = m - n
      /\ \A i \in 1 .. m - n : Held(d)[i] = r.buffer[Slot(t + i - 1)]
  BY <1>2, <1>3, <1>7, <1>8, ContentsAre DEF Held
<1>10. Held(r) \in Seq(Byte) /\ Len(Held(r)) = m
       /\ \A i \in 1 .. m : Held(r)[i] = r.buffer[Slot(h + i - 1)]
  BY <1>1, ContentsAre DEF Held, h, m
<1>. DEFINE rest == SubSeq(Held(r), n + 1, m)
<1>11. /\ rest \in Seq(Byte) /\ Len(rest) = m - n
       /\ \A i \in 1 .. m - n : rest[i] = Held(r)[n + i]
  <2>1. \A i \in n + 1 .. m : Held(r)[i] \in Byte
    <3>. \A i \in 1 .. m : Held(r)[i] \in Byte
      BY <1>10, ElementOfSeq
    <3>. QED
      BY <1>1, <1>2
  <2>2. /\ rest \in Seq(Byte) /\ Len(rest) = IF n + 1 <= m THEN m - (n + 1) + 1 ELSE 0
        /\ \A i \in 1 .. m - (n + 1) + 1 : rest[i] = Held(r)[n + 1 + i - 1]
    <3>. n + 1 \in Int /\ m \in Int
      BY <1>1, <1>2
    <3>. QED
      BY <2>1, SubSeqProperties
  <2>3. m - (n + 1) + 1 = m - n /\ (~(n + 1 <= m) => m - n = 0)
        /\ \A i \in 1 .. m - n : n + 1 + i - 1 = n + i
    <3>. m \in Nat /\ n \in Nat /\ n <= m
      BY <1>1, <1>2
    <3>. QED
      OBVIOUS
  <2>. HIDE DEF rest
  <2>. QED
    BY <2>2, <2>3
<1>. HIDE DEF rest
<1>12. ASSUME NEW i \in 1 .. m - n PROVE Held(d)[i] = rest[i]
  <2>1. n + i \in 1 .. m /\ h + (n + i) - 1 \in Nat /\ t + i - 1 = t + (i - 1)
    BY <1>1, <1>2, <1>4
  <2>2. rest[i] = r.buffer[Slot(h + (n + i) - 1)]
    BY <1>10, <1>11, <2>1
  <2>. QED
    BY <1>6, <1>9, <2>1, <2>2
<1>13. Held(d) = rest
  BY <1>9, <1>11, <1>12, SeqEqual
<1>. QED
  BY <1>7, <1>8, <1>13 DEF d, n, m, rest

LEMMA FilledIsAdded ==
  ASSUME NEW r, NEW items, NEW k, NEW size
  PROVE  Filled(r, items, k, size) = Added(r, items, k, Reserved(r, size))
  BY DEF Filled, Added

-----------------------------------------------------------------------------
(* The operations                                                          *)

LEMMA BecomeIsHere ==
  ASSUME NEW r, r \in Ring, Become(r)
  PROVE  Here' = r
  BY DEF Become, Here, Ring

LEMMA ChunksAreBytes ==
  ASSUME NEW items \in Chunks
  PROVE  items \in Seq(Byte) /\ Len(items) \in Nat
  BY InputsAssumption, LenProperties

LEMMA HeldBytes ==
  ASSUME NEW r, Sound(r)
  PROVE  Held(r) \in Seq(Byte) /\ Len(Held(r)) = get_size(r)
  BY SizeReachesTail, ContentsAre DEF Held

\* The first n bytes of a run, and a concatenation without its first k bytes.
LEMMA FirstOfBytes ==
  ASSUME NEW items \in Seq(Byte), NEW n \in 0 .. Len(items)
  PROVE  /\ SubSeq(items, 1, n) \in Seq(Byte) /\ Len(SubSeq(items, 1, n)) = n
         /\ \A i \in 1 .. n : SubSeq(items, 1, n)[i] = items[i]
<1>. DEFINE first == SubSeq(items, 1, n)
<1>1. Len(items) \in Nat /\ n \in Nat /\ \A i \in 1 .. Len(items) : items[i] \in Byte
  BY LenProperties, ElementOfSeq
<1>2. \A i \in 1 .. n : items[i] \in Byte
  BY <1>1
<1>3. /\ first \in Seq(Byte) /\ Len(first) = IF 1 <= n THEN n - 1 + 1 ELSE 0
      /\ \A i \in 1 .. n - 1 + 1 : first[i] = items[1 + i - 1]
  BY <1>1, <1>2, SubSeqProperties
<1>. HIDE DEF first
<1>4. first \in Seq(Byte) /\ Len(first) = n /\ \A i \in 1 .. n : first[i] = items[i]
  BY <1>1, <1>3
<1>. QED
  BY <1>4 DEF first

LEMMA RestOfBytes ==
  ASSUME NEW items \in Seq(Byte), NEW k \in 0 .. Len(items)
  PROVE  /\ SubSeq(items, k + 1, Len(items)) \in Seq(Byte)
         /\ Len(SubSeq(items, k + 1, Len(items))) = Len(items) - k
         /\ \A i \in 1 .. Len(items) - k :
              SubSeq(items, k + 1, Len(items))[i] = items[k + i]
<1>. DEFINE n == Len(items)
            rest == SubSeq(items, k + 1, n)
<1>1. n \in Nat /\ k \in Nat /\ k <= n /\ \A i \in 1 .. n : items[i] \in Byte
  BY LenProperties, ElementOfSeq
<1>. HIDE DEF n
<1>2. k + 1 \in Int /\ n \in Int /\ \A i \in k + 1 .. n : items[i] \in Byte
  BY <1>1
<1>3. /\ rest \in Seq(Byte) /\ Len(rest) = IF k + 1 <= n THEN n - (k + 1) + 1 ELSE 0
      /\ \A i \in 1 .. n - (k + 1) + 1 : rest[i] = items[k + 1 + i - 1]
  BY <1>2, SubSeqProperties
<1>4. n - (k + 1) + 1 = n - k /\ \A i \in 1 .. n - k : k + 1 + i - 1 = k + i
  BY <1>1
<1>. HIDE DEF rest
<1>5. rest \in Seq(Byte) /\ Len(rest) = n - k /\ \A i \in 1 .. n - k : rest[i] = items[k + i]
  BY <1>1, <1>3, <1>4
<1>. QED
  BY <1>5 DEF rest, n

LEMMA RestOfConcat ==
  ASSUME NEW s \in Seq(Byte), NEW t \in Seq(Byte), NEW k \in 0 .. Len(s)
  PROVE  SubSeq(s \o t, k + 1, Len(s) + Len(t)) = SubSeq(s, k + 1, Len(s)) \o t
<1>. DEFINE all == SubSeq(s \o t, k + 1, Len(s) + Len(t))
            rest == SubSeq(s, k + 1, Len(s))
            n == Len(s)
            m == Len(t)
            both == s \o t
<1>1. n \in Nat /\ m \in Nat /\ k \in Nat /\ k <= n
  BY LenProperties
<1>2. /\ both \in Seq(Byte) /\ Len(both) = n + m
      /\ \A i \in 1 .. n + m : both[i] = IF i <= n THEN s[i] ELSE t[i - n]
  BY ConcatProperties
<1>3. /\ rest \in Seq(Byte) /\ Len(rest) = n - k
      /\ \A i \in 1 .. n - k : rest[i] = s[k + i]
  BY RestOfBytes
<1>4. all = SubSeq(both, k + 1, Len(both))
  BY <1>2
<1>. HIDE DEF both, n, m, all, rest
<1>5. /\ all \in Seq(Byte) /\ Len(all) = n + m - k
      /\ \A i \in 1 .. n + m - k : all[i] = both[k + i]
  <2>1. k \in 0 .. Len(both) /\ both \in Seq(Byte)
    BY <1>1, <1>2
  <2>2. /\ all \in Seq(Byte) /\ Len(all) = Len(both) - k
        /\ \A i \in 1 .. Len(both) - k : all[i] = both[k + i]
    BY <1>4, <2>1, RestOfBytes, Zenon
  <2>. DEFINE l == Len(both) - k
  <2>3. l = n + m - k
    BY <1>1, <1>2
  <2>4. /\ all \in Seq(Byte) /\ Len(all) = l
        /\ \A i \in 1 .. l : all[i] = both[k + i]
    BY <2>2
  <2>. HIDE DEF l
  <2>. QED
    BY <2>3, <2>4
<1>6. /\ rest \o t \in Seq(Byte) /\ Len(rest \o t) = n - k + m
      /\ \A i \in 1 .. n - k + m :
           (rest \o t)[i] = IF i <= n - k THEN rest[i] ELSE t[i - (n - k)]
  <2>1. rest \in Seq(Byte) /\ Len(rest) = n - k /\ Len(t) = m
    BY <1>3 DEF m
  <2>2. /\ rest \o t \in Seq(Byte) /\ Len(rest \o t) = Len(rest) + Len(t)
        /\ \A i \in 1 .. Len(rest) + Len(t) :
             (rest \o t)[i] = IF i <= Len(rest) THEN rest[i] ELSE t[i - Len(rest)]
    BY <2>1, ConcatProperties, Zenon
  <2>. QED
    BY <2>1, <2>2, Zenon
<1>7. ASSUME NEW i \in 1 .. n + m - k PROVE all[i] = (rest \o t)[i]
  <2>1. i \in 1 .. n - k + m /\ k + i \in 1 .. n + m
    BY <1>1
  <2>2. CASE i <= n - k
    <3>1. i \in 1 .. n - k /\ k + i <= n
      BY <1>1, <2>2
    <3>2. all[i] = s[k + i]
      BY <1>2, <1>5, <2>1, <3>1, Zenon
    <3>3. (rest \o t)[i] = s[k + i]
      BY <1>3, <1>6, <2>1, <2>2, <3>1, Zenon
    <3>. QED
      BY <3>2, <3>3
  <2>3. CASE ~(i <= n - k)
    <3>1. ~(k + i <= n) /\ (k + i) - n = i - (n - k)
      BY <1>1, <2>3
    <3>2. all[i] = t[(k + i) - n]
      <4>1. both[k + i] = t[(k + i) - n]
        <5>1. ASSUME NEW j \in 1 .. n + m, ~(j <= n) PROVE both[j] = t[j - n]
          BY <1>2, <5>1
        <5>. QED
          BY <2>1, <3>1, <5>1, Zenon
      <4>2. all[i] = both[k + i]
        BY <1>5
      <4>. QED
        BY <4>1, <4>2
    <3>3. (rest \o t)[i] = t[i - (n - k)]
      BY <1>6, <2>1, <2>3, Zenon
    <3>. QED
      BY <3>1, <3>2, <3>3
  <2>. QED
    BY <2>2, <2>3
<1>8. n + m - k = n - k + m
  BY <1>1
<1>9. all = rest \o t
  BY <1>5, <1>6, <1>7, <1>8, SeqEqual
<1>. QED
  BY <1>9 DEF all, rest, n, m

LEMMA PushRefines ==
  ASSUME Sound(Here), NEW items \in Chunks, push(items)
  PROVE  Sound(Here)' /\ Queue!push(items)
<1>. DEFINE n == Smaller(Len(items), get_space(Here))
            a == Added(Here, items, 0, n)
<1>1. n \in 0 .. Capacity - get_size(Here) /\ 0 + n <= Len(items) /\ items \in Seq(Byte)
  BY SizeReachesTail, ChunksAreBytes, CapacityAssumption DEF get_space, Smaller
<1>2. Become(a) /\ result' = Returned(n, <<>>)
  BY DEF push, Added
<1>3. n = Queue!Fits(Len(items), Capacity - Len(Held(Here)))
  BY HeldBytes DEF Queue!Fits, get_space, Smaller
<1>. HIDE DEF n
<1>4. Sound(a) /\ Held(a) = Held(Here) \o SubSeq(items, 1, n)
  <2>. DEFINE k == 0
  <2>1. k \in Nat /\ k + n <= Len(items) /\ k + 1 = 1 /\ k + n = n
    BY <1>1, SizeReachesTail, CapacityAssumption
  <2>2. a = Added(Here, items, k, n)
    OBVIOUS
  <2>. HIDE DEF a, k
  <2>3. /\ Sound(Added(Here, items, k, n))
        /\ Held(Added(Here, items, k, n)) = Held(Here) \o SubSeq(items, k + 1, k + n)
    BY <1>1, <2>1, AddedIsAppended
  <2>. QED
    BY <2>1, <2>2, <2>3
<1>. HIDE DEF a
<1>5. Here' = a
  BY <1>2, <1>4, BecomeIsHere DEF Sound
<1>6. Held(Here)' = Held(Here) \o SubSeq(items, 1, n)
  BY <1>4, <1>5 DEF Held, Contents
<1>. QED
  BY <1>2, <1>3, <1>4, <1>5, <1>6
  DEF Queue!push, Queue!First, Queue!Returned, Returned, Held, Sound

LEMMA DropRefines ==
  ASSUME Sound(Here), NEW size \in Sizes, drop(size) \/ pop(size)
  PROVE  Sound(Here)' /\ (Queue!drop(size) \/ Queue!pop(size))
<1>. DEFINE n == Smaller(size, get_size(Here))
            d == Dropped(Here, size)
<1>1. size \in Nat /\ get_size(Here) \in 0 .. Capacity
  BY InputsAssumption, SizeReachesTail
<1>2. /\ Sound(d)
      /\ Held(d) = SubSeq(Held(Here), n + 1, get_size(Here))
  BY <1>1, DroppedIsRest
<1>3. Become(d)
  BY DEF pop, drop
<1>4. n = Queue!Fits(size, Len(Held(Here))) /\ n \in 0 .. get_size(Here)
  BY <1>1, HeldBytes, CapacityAssumption DEF Queue!Fits, Smaller
<1>5. \/ drop(size) /\ result' = Returned(n, <<>>)
      \/ pop(size) /\ result' = Returned(n, Contents(Here, n))
  BY DEF pop, drop
<1>. HIDE DEF n, d
<1>6. Here' = d
  BY <1>2, <1>3, BecomeIsHere DEF Sound
<1>7. Held(Here)' = Queue!After(Held(Here), n)
  <2>. Held(Here)' = Held(d)
    BY <1>6 DEF Held, Contents
  <2>. QED
    BY <1>2, HeldBytes DEF Queue!After
<1>8. Contents(Here, n) = SubSeq(Held(Here), 1, n)
  <2>1. /\ Contents(Here, n) \in Seq(Byte) /\ Len(Contents(Here, n)) = n
        /\ \A i \in 1 .. n : Contents(Here, n)[i] = Here.buffer[Slot(Here.head + i - 1)]
    <3>. n \in 0 .. Capacity
      BY <1>1, <1>4, CapacityAssumption
    <3>. QED
      BY ContentsAre
  <2>2. /\ Held(Here) \in Seq(Byte)
        /\ \A i \in 1 .. get_size(Here) : Held(Here)[i] = Here.buffer[Slot(Here.head + i - 1)]
    BY <1>1, ContentsAre, HeldBytes DEF Held
  <2>. DEFINE first == SubSeq(Held(Here), 1, n)
  <2>3. /\ first \in Seq(Byte) /\ Len(first) = n
        /\ \A i \in 1 .. n : first[i] = Held(Here)[i]
    <3>. n \in 0 .. Len(Held(Here))
      BY <1>4, HeldBytes
    <3>. QED
      BY <2>2, FirstOfBytes
  <2>. HIDE DEF first
  <2>4. \A i \in 1 .. n : Contents(Here, n)[i] = first[i]
    BY <1>1, <1>4, <2>1, <2>2, <2>3
  <2>5. Contents(Here, n) = first
    BY <2>1, <2>3, <2>4, SeqEqual
  <2>. QED
    BY <2>5 DEF first
<1>9. Sound(Here)'
  BY <1>2, <1>6 DEF Sound, Ring
<1>10. CASE drop(size) /\ result' = Returned(n, <<>>)
  BY <1>4, <1>7, <1>9, <1>10 DEF Queue!drop, Queue!Returned, Returned, Held
<1>11. CASE pop(size) /\ result' = Returned(n, Contents(Here, n))
  BY <1>4, <1>7, <1>8, <1>9, <1>11
  DEF Queue!pop, Queue!First, Queue!Returned, Returned, Held
<1>. QED
  BY <1>5, <1>10, <1>11

LEMMA ClearRefines ==
  ASSUME Sound(Here), clear
  PROVE  Sound(Here)' /\ Queue!clear
<1>. DEFINE c == [is_empty |-> TRUE, buffer |-> buffer_, head |-> 0, tail |-> 0]
<1>1. c \in Ring /\ c.is_empty = TRUE /\ c.head = 0 /\ c.tail = 0
  <2>. buffer_ \in [Slots -> Byte] /\ 0 \in Slots
    BY CapacityAssumption DEF Sound, Ring, Here, Slots
  <2>. QED
    BY DEF Ring
<1>2. Become(c) /\ result' = Returned(0, <<>>)
  BY DEF clear
<1>. HIDE DEF c
<1>3. Here' = c /\ Sound(c)
  BY <1>1, <1>2, BecomeIsHere DEF Sound
<1>4. get_size(c) = 0
  BY <1>1 DEF get_size
<1>5. Held(c) = <<>>
  BY <1>3, <1>4, HeldBytes, EmptySeq
<1>6. Sound(Here)'
  BY <1>3 DEF Sound, Ring
<1>7. Held(Here)' = <<>>
  BY <1>3, <1>5 DEF Held, Contents
<1>. QED
  BY <1>2, <1>6, <1>7 DEF Queue!clear, Queue!Returned, Returned, Held

\* read_data() drops what must go, and reads in one run, or in two when the
\* first ends at the end of the array.
LEMMA ReadRefines ==
  ASSUME Sound(Here), NEW items \in Chunks, read_data(items)
  PROVE  Sound(Here)' /\ Queue!read(items)
<1>. DEFINE count == Smaller(Len(items), Capacity)
            space == get_space(Here)
            room == IF count > space THEN Dropped(Here, count - space) ELSE Here
            n == Reserved(room, count)
            one == Filled(room, items, 0, count)
            two == Filled(one, items, n, count - n)
            all == IF count > n THEN two ELSE one
            gone == IF count > space THEN count - space ELSE 0
            s == get_size(Here)
<1>1. /\ items \in Seq(Byte) /\ Len(items) \in Nat /\ Capacity \in Nat \ {0}
      /\ count \in 0 .. Capacity /\ count <= Len(items)
      /\ s \in 0 .. Capacity /\ space = Capacity - s
  BY ChunksAreBytes, SizeReachesTail, CapacityAssumption DEF Smaller, get_space
<1>2. Become(all) /\ result' = Returned(count, <<>>)
  BY DEF read_data
<1>3. gone \in 0 .. s /\ count <= Capacity - (s - gone) /\ s - gone \in 0 .. Capacity
  BY <1>1
<1>4. Held(Here) \in Seq(Byte) /\ Len(Held(Here)) = s
  BY HeldBytes
<1>. HIDE DEF count, space, s
<1>5. Sound(room) /\ Held(room) = SubSeq(Held(Here), gone + 1, s)
  <2>1. CASE count > space
    <3>1. room = Dropped(Here, count - space) /\ gone = count - space
      BY <2>1
    <3>2. count - space \in Nat /\ Smaller(count - space, get_size(Here)) = gone
      BY <1>1, <1>3, <2>1, <3>1 DEF Smaller, s
    <3>. QED
      BY <3>1, <3>2, DroppedIsRest DEF s
  <2>2. CASE ~(count > space)
    <3>1. room = Here /\ gone + 1 = 1
      BY <2>2
    <3>. QED
      BY <1>4, <3>1, SubSeqFull
  <2>. QED
    BY <2>1, <2>2
<1>6. get_size(room) = s - gone
  <2>1. Len(Held(room)) = get_size(room)
    BY <1>5, HeldBytes
  <2>2. \A i \in gone + 1 .. s : Held(Here)[i] \in Byte
    <3>. \A i \in 1 .. s : Held(Here)[i] \in Byte
      BY <1>4, ElementOfSeq
    <3>. QED
      BY <1>1, <1>3
  <2>3. Len(Held(room)) = IF gone + 1 <= s THEN s - (gone + 1) + 1 ELSE 0
    <3>. gone + 1 \in Int /\ s \in Int
      BY <1>1, <1>3
    <3>. QED
      BY <1>5, <2>2, SubSeqProperties
  <2>. HIDE DEF room, gone
  <2>. QED
    BY <1>1, <1>3, <2>1, <2>3
<1>. HIDE DEF room, gone
<1>7. n \in 0 .. count /\ n \in 0 .. Capacity - get_size(room) /\ n <= Len(items)
      /\ (count > n => n = Capacity - room.tail)
  <2>1. room.tail \in 0 .. Capacity - 1
    BY <1>5, SoundFields
  <2>2. n \in 0 .. count /\ (count > n => n = Capacity - room.tail)
    BY <1>1, <2>1 DEF Reserved, Smaller
  <2>. HIDE DEF n
  <2>. QED
    BY <1>1, <1>3, <1>6, <2>2
<1>8. one = Added(room, items, 0, n)
  BY FilledIsAdded
<1>. HIDE DEF n, one
<1>9. Sound(one) /\ Held(one) = Held(room) \o SubSeq(items, 1, n)
  <2>. DEFINE k == 0
  <2>1. k \in Nat /\ k + n <= Len(items) /\ k + 1 = 1 /\ k + n = n
    BY <1>1, <1>7
  <2>2. one = Added(room, items, k, n)
    BY <1>8
  <2>. HIDE DEF k
  <2>3. /\ Sound(Added(room, items, k, n))
        /\ Held(Added(room, items, k, n)) = Held(room) \o SubSeq(items, k + 1, k + n)
    BY <1>1, <1>5, <1>7, <2>1, AddedIsAppended, ZenonT(30)
  <2>. QED
    BY <2>1, <2>2, <2>3
<1>10. Sound(all) /\ Held(all) = Held(room) \o SubSeq(items, 1, count)
  <2>1. CASE ~(count > n)
    <3>. all = one /\ n = count
      BY <1>1, <1>7, <2>1
    <3>. QED
      BY <1>9
  <2>2. CASE count > n
    <3>0. all = two
      BY <2>2
    <3>1. one.tail = 0
      <4>1. one.tail = Slot(room.tail + n)
        <5>. room \in [is_empty : BOOLEAN, buffer : [Slots -> Byte], head : Slots, tail : Slots]
          BY <1>5 DEF Sound, Ring
        <5>. QED
          BY <1>8 DEF Added
      <4>2. room.tail + n = Capacity
        BY <1>1, <1>5, <1>7, <2>2, SoundFields
      <4>3. Slot(Capacity) = 0
        <5>1. Capacity \in 0 .. 2 * Capacity - 1
          BY <1>1
        <5>. QED
          BY <1>1, <5>1, SlotWraps
      <4>. QED
        BY <4>1, <4>2, <4>3
    <3>2. Reserved(one, count - n) = count - n
      BY <1>1, <1>7, <3>1 DEF Reserved, Smaller
    <3>3. two = Added(one, items, n, count - n)
      BY <3>2, FilledIsAdded
    <3>4. get_size(one) = get_size(room) + n
      <4>1. /\ SubSeq(items, 1, n) \in Seq(Byte) /\ Len(SubSeq(items, 1, n)) = n
        BY <1>1, <1>7, FirstOfBytes
      <4>2. Held(room) \in Seq(Byte) /\ Len(Held(room)) = get_size(room)
        BY <1>5, HeldBytes
      <4>. QED
        BY <1>9, <4>1, <4>2, ConcatProperties, HeldBytes
    <3>5. /\ count - n \in 0 .. Capacity - get_size(one) /\ n \in Nat
          /\ n + (count - n) = count
      BY <1>1, <1>3, <1>6, <1>7, <2>2, <3>4
    <3>. DEFINE m == count - n
    <3>. HIDE DEF m, two
    <3>6. /\ Sound(two)
          /\ Held(two) = Held(one) \o SubSeq(items, n + 1, n + m)
      <4>. /\ m \in 0 .. Capacity - get_size(one) /\ n + m <= Len(items)
           /\ two = Added(one, items, n, m)
        BY <1>1, <3>3, <3>5 DEF m
      <4>. QED
        BY <1>1, <1>9, <3>5, AddedIsAppended
    <3>7. SubSeq(items, 1, n) \o SubSeq(items, n + 1, count) = SubSeq(items, 1, count)
      <4>. 1 \in 1 .. Len(items) + 1 /\ n \in 1 - 1 .. Len(items) /\ count \in n .. Len(items)
        BY <1>1, <1>7
      <4>. QED
        BY <1>1, ConcatAdjacentSubSeq
    <3>8. /\ SubSeq(items, 1, n) \in Seq(Byte) /\ SubSeq(items, n + 1, count) \in Seq(Byte)
          /\ Held(room) \in Seq(Byte)
      <4>. \A i \in 1 .. Len(items) : items[i] \in Byte
        BY <1>1, ElementOfSeq
      <4>1. \A i \in n + 1 .. count : items[i] \in Byte
        BY <1>1, <1>7
      <4>2. SubSeq(items, n + 1, count) \in Seq(Byte)
        <5>. n + 1 \in Int /\ count \in Int
          BY <1>1, <1>7
        <5>. QED
          BY <4>1, SubSeqProperties
      <4>3. SubSeq(items, 1, n) \in Seq(Byte)
        BY <1>1, <1>7, FirstOfBytes
      <4>. QED
        BY <1>5, <4>2, <4>3, HeldBytes
    <3>9. (Held(room) \o SubSeq(items, 1, n)) \o SubSeq(items, n + 1, count)
            = Held(room) \o (SubSeq(items, 1, n) \o SubSeq(items, n + 1, count))
      <4>. DEFINE x == Held(room)
                  y == SubSeq(items, 1, n)
                  z == SubSeq(items, n + 1, count)
      <4>1. x \in Seq(Byte) /\ y \in Seq(Byte) /\ z \in Seq(Byte)
        BY <3>8
      <4>. HIDE DEF x, y, z
      <4>2. (x \o y) \o z = x \o (y \o z)
        BY <4>1, ConcatAssociative
      <4>. QED
        BY <4>2 DEF x, y, z
    <3>. QED
      BY <1>9, <3>0, <3>5, <3>6, <3>7, <3>9 DEF m
  <2>. QED
    BY <2>1, <2>2
<1>. HIDE DEF all
<1>11. Here' = all
  BY <1>2, <1>10, BecomeIsHere DEF Sound
<1>12. Sound(Here)' /\ Held(Here)' = SubSeq(Held(Here), gone + 1, s) \o SubSeq(items, 1, count)
  <2>1. Sound(Here)'
    BY <1>10, <1>11 DEF Sound, Ring
  <2>2. Held(Here)' = Held(all)
    BY <1>11 DEF Held, Contents
  <2>. QED
    BY <1>5, <1>10, <2>1, <2>2
<1>13. /\ SubSeq(items, 1, count) \in Seq(Byte) /\ Len(SubSeq(items, 1, count)) = count
  BY <1>1, FirstOfBytes
<1>. DEFINE joined == Held(Here) \o SubSeq(items, 1, count)
<1>14. /\ joined \in Seq(Byte) /\ Len(joined) = s + count
       /\ SubSeq(joined, gone + 1, s + count)
            = SubSeq(Held(Here), gone + 1, s) \o SubSeq(items, 1, count)
  <2>. DEFINE more == SubSeq(items, 1, count)
              old == Held(Here)
  <2>1. old \in Seq(Byte) /\ more \in Seq(Byte) /\ Len(old) = s /\ Len(more) = count
        /\ gone \in 0 .. Len(old)
    BY <1>3, <1>4, <1>13
  <2>. HIDE DEF old, more
  <2>2. /\ old \o more \in Seq(Byte) /\ Len(old \o more) = s + count
        /\ SubSeq(old \o more, gone + 1, Len(old) + Len(more))
             = SubSeq(old, gone + 1, Len(old)) \o more
    BY <2>1, RestOfConcat, ConcatProperties
  <2>. QED
    BY <2>1, <2>2 DEF old, more
<1>. HIDE DEF joined
<1>15. Len(joined) - Queue!Fits(Len(joined), Capacity) = gone
  BY <1>1, <1>14 DEF Queue!Fits, gone
<1>16. count = Queue!Fits(Len(items), Capacity)
  BY DEF count, Queue!Fits, Smaller
<1>17. Held(Here)' = Queue!After(joined, gone)
  BY <1>12, <1>14 DEF Queue!After
<1>18. joined = Held(Here) \o Queue!First(items, count)
  BY DEF Queue!First, joined
<1>19. Queue!read(items)
  BY <1>2, <1>15, <1>16, <1>17, <1>18 DEF Queue!read, Queue!Returned, Returned, Held
<1>. QED
  BY <1>12, <1>19

-----------------------------------------------------------------------------
(* The specification                                                       *)

LEMMA StartsSound ==
  ASSUME Init
  PROVE  Sound(Here) /\ Queue!Init
<1>1. Here \in Ring /\ Here.is_empty = TRUE /\ Here.head = 0 /\ Here.tail = 0
  <2>. 0 \in Slots
    BY CapacityAssumption DEF Slots
  <2>. QED
    BY DEF Init, Here, Ring
<1>2. get_size(Here) = 0
  BY <1>1 DEF get_size
<1>3. Sound(Here)
  BY <1>1 DEF Sound
<1>4. Held(Here) = <<>>
  BY <1>2, <1>3, HeldBytes, EmptySeq
<1>. QED
  BY <1>3, <1>4 DEF Init, Queue!Init, Queue!Returned, Returned, Held

LEMMA StepRefines ==
  ASSUME Sound(Here), [Next]_vars
  PROVE  Sound(Here)' /\ [Queue!Next]_<<Contents(Here, get_size(Here)), result>>
<1>1. ASSUME NEW items \in Chunks, push(items)
      PROVE  Sound(Here)' /\ Queue!Next
  BY <1>1, PushRefines DEF Queue!Next
<1>2. ASSUME NEW items \in Chunks, read_data(items)
      PROVE  Sound(Here)' /\ Queue!Next
  BY <1>2, ReadRefines DEF Queue!Next
<1>3. ASSUME NEW size \in Sizes, drop(size) \/ pop(size)
      PROVE  Sound(Here)' /\ Queue!Next
  BY <1>3, DropRefines DEF Queue!Next
<1>4. CASE clear
  BY <1>4, ClearRefines DEF Queue!Next
<1>5. CASE UNCHANGED vars
  <2>1. Here' = Here /\ result' = result
    BY <1>5 DEF vars, ring, Here
  <2>2. Sound(Here)'
    BY <2>1 DEF Sound, Ring
  <2>3. Contents(Here, get_size(Here))' = Contents(Here, get_size(Here))
    BY <2>1 DEF Contents
  <2>. QED
    BY <2>1, <2>2, <2>3
<1>. QED
  BY <1>1, <1>2, <1>3, <1>4, <1>5 DEF Next

\* The ring is sound in every state: the inductive invariant, the types and
\* is_empty_ set only where head_ has caught up with tail_.
THEOREM RingInvariant == Spec => []Sound(Here)
<1>1. Init => Sound(Here)
  BY StartsSound
<1>2. Sound(Here) /\ [Next]_vars => Sound(Here)'
  BY StepRefines
<1>. QED
  BY <1>1, <1>2, PTL DEF Spec

\* Positions stay inside the array, whatever is pushed, read, popped or cleared.
THEOREM TypesAlwaysHold == Spec => []TypeOK
<1>1. Sound(Here) => TypeOK
  BY DEF Sound, TypeOK
<1>. QED
  BY <1>1, RingInvariant, PTL

\* A ring marked empty has no byte between head_ and tail_.
THEOREM EmptyAlwaysMeansCaughtUp == Spec => []EmptyMeansCaughtUp
<1>1. Sound(Here) => EmptyMeansCaughtUp
  BY DEF Sound, EmptyMeansCaughtUp, Here
<1>. QED
  BY <1>1, RingInvariant, PTL

\* The ring implements the queue of bytes, for every capacity: no wrap, no
\* overflow and no run reserved in two pieces loses or reorders a byte.
THEOREM RingIsByteQueue == Spec => IsByteQueue
<1>1. Init => Queue!Init
  BY StartsSound
<1>2. Sound(Here) /\ [Next]_vars
        => [Queue!Next]_<<Contents(Here, get_size(Here)), result>>
  BY StepRefines
<1>. QED
  BY <1>1, <1>2, RingInvariant, PTL DEF Spec, IsByteQueue, Queue!Spec, Queue!vars
=============================================================================
