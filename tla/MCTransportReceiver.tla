------------------------- MODULE MCTransportReceiver -------------------------
(***************************************************************************)
(* TransportReceiver for TLC with bytes of three bits: 7 separates, 2      *)
(* follows it, a header has 5 bytes, data at most 2.                       *)
(***************************************************************************)
EXTENDS TransportReceiver, SequencesExt

\* Stands for the CRC: depends on every byte and on their order, and gives
\* separators too.
MCCrc(bytes) ==
  LET weighted[i \in DOMAIN bytes] == (i * bytes[i] + 1) % Base
  IN  <<Sum(weighted), Sum(bytes \o weighted)>>

Frame(t, d, c) == [type |-> t, data |-> d, use_crc |-> c]
Short == Frame(1, <<>>, FALSE)
Escaped == Frame(7, <<7, 2>>, FALSE)
Checked == Frame(3, <<7>>, TRUE)

Quiet == [i \in 1 .. LongestBody |-> 0]

\* A byte of an image replaced, its last bytes missing, one byte missing.
Damaged(image) ==
  {[image EXCEPT ![i] = b] : i \in DOMAIN image, b \in {0, 2, 5, 7}}
    \cup {SubSeq(image, 1, n) : n \in DOMAIN image}
    \cup {RemoveAt(image, i) : i \in DOMAIN image}

\* Every noise of three bytes, and behind a false start.
Noise == BoundedSeq({2, 3, 7}, 3) \cup {<<7, 7>> \o n : n \in BoundedSeq({2, 3, 7}, 2)}

\* The frames of these lines overflow a buffer of 12 bytes when they are read at
\* once.  In the next to last the overflow can take separators the parser has
\* counted, in the last separators follow a frame inside a false body.
MCLines ==
  {n \o Image(Escaped) \o Quiet : n \in Noise}
    \cup {n \o Image(Short) \o Image(Checked) : n \in Noise}
    \cup {d \o Image(f) \o Quiet :
            d \in Damaged(Image(Escaped)) \cup Damaged(Image(Checked)),
            f \in {Short, Checked}}
    \cup {<<7, 7, 5, 5>> \o SubSeq(Image(Short), 3, 6) \o Image(Short),
          <<7, 7, 5, 4, 3>> \o Image(Short) \o <<7, 7, 7, 7>> \o Quiet}

\* A frame cut short, and another behind it.
MCPartialLines ==
  {SubSeq(Image(f), 1, n) \o Image(Short) : f \in {Escaped, Checked}, n \in 3 .. 10}
=============================================================================
