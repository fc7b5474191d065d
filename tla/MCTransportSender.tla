-------------------------- MODULE MCTransportSender --------------------------
(***************************************************************************)
(* TransportSender for TLC with the sizes of the code (haier_frame.h,      *)
(* lines 10 to 15) and its CRC: small frames of every kind, and the        *)
(* longest ones with as many separators as fit a buffer of 255 bytes, or   *)
(* more.  Types 183 and 247 give a checksum that is a separator.           *)
(***************************************************************************)
EXTENDS TransportSender, SequencesExt, Bitwise

\* crc_table and crc16(): CRC-16/ARC, a byte at a time, low bit first; in halves, so
\* that TLC's stack holds long data.
ShiftOut(crc) == IF crc % 2 = 1 THEN (crc \div 2) ^^ 40961 ELSE crc \div 2
Crc16(bytes) ==
  LET round[n \in 0 .. 8, crc \in Nat] ==
        IF n = 0 THEN crc ELSE round[n - 1, ShiftOut(crc)]
      after[i \in DOMAIN bytes, j \in DOMAIN bytes, crc \in Nat] ==
        LET mid == (i + j) \div 2
        IN  IF i = j THEN round[8, crc ^^ bytes[i]]
            ELSE after[mid + 1, j, after[i, mid, crc]]
  IN  IF bytes = <<>> THEN 0 ELSE after[1, Len(bytes), 0]
MCCrc(bytes) == <<Crc16(bytes) \div 256, Crc16(bytes) % 256>>

Frame(types, data, crcs) == [type : types, data : data, use_crc : crcs]

\* n bytes, k of them separators.
Filled(n, k) == [i \in 1 .. n |-> IF i <= k THEN SEPARATOR_BYTE ELSE i % 64]

MCFrames ==
  Frame({1, 255}, BoundedSeq({0, 85, 254, 255}, 2), BOOLEAN)
    \cup Frame({1}, {Filled(n, 11) : n \in {232, 233, 234}}, {FALSE})
    \cup Frame({183, 247}, {<<>>}, BOOLEAN)
    \cup Frame({97, 98}, {[i \in 1 .. 6 |-> b] : b \in 240 .. 255}, BOOLEAN)

\* With twelve separators in the data and no CRC the buffer has 256 bytes.
MCLargeFrames == Frame({1}, {Filled(233, k) : k \in {11, 12, 13, 233}}, {FALSE})
=============================================================================
