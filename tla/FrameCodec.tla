------------------------------ MODULE FrameCodec ------------------------------
(***************************************************************************)
(* Frames and the bytes they are on the serial line: what HaierFrame       *)
(* (src/src/transport/haier_frame.cpp) writes for a frame, and what its    *)
(* parser takes for one.                                                   *)
(*                                                                         *)
(* A frame is [type, data, use_crc].  On the line it is two separators,    *)
(* then header, data, checksum and, with use_crc, two bytes of CRC; after  *)
(* the first two, every separator byte is followed by a post byte.         *)
(***************************************************************************)
EXTENDS Integers, Sequences, FiniteSets, FiniteSetsExt, Omission

CONSTANTS Base,                 \* values of a byte: 256
          SizeBase,             \* values of the uint8_t sizes and positions: 256
          SEPARATOR_POST_BYTE,  \* 0x55
          FRAME_HEADER_SIZE,    \* 10, with the two separators
          MAX_FRAME_SIZE,       \* 0xF1, the largest value of the length byte
          USE_CRC_MASK,         \* 0x40, a power of two
          Crc(_)                \* the two bytes of the CRC of a sequence of bytes

SEPARATOR_BYTE == Base - 1
FRAME_SEPARATORS_COUNT == 2
PURE_HEADER_SIZE == FRAME_HEADER_SIZE - FRAME_SEPARATORS_COUNT

ASSUME SizesAssumption ==
  /\ Base \in Nat /\ SizeBase \in Nat \ {0} /\ USE_CRC_MASK \in 1 .. Base - 2
  /\ FRAME_HEADER_SIZE \in Nat /\ FRAME_HEADER_SIZE >= 5
  /\ MAX_FRAME_SIZE \in PURE_HEADER_SIZE .. Base - 2
  /\ SEPARATOR_POST_BYTE \in 0 .. Base - 2

Byte == 0 .. Base - 1
Bytes == Seq(Byte)

-----------------------------------------------------------------------------
(* Bytes                                                                   *)

Sum(bytes) ==
  LET total[i \in DOMAIN bytes, j \in DOMAIN bytes] ==
        LET mid == (i + j) \div 2
        IN  IF i = j THEN bytes[i] ELSE total[i, mid] + total[mid + 1, j]
  IN  IF bytes = <<>> THEN 0 ELSE total[1, Len(bytes)] % Base

Separators(bytes) == Cardinality({i \in DOMAIN bytes : bytes[i] = SEPARATOR_BYTE})

\* SET_WITH_POST_BYTE for each byte of a sequence: a byte lands behind those before
\* it and a post byte for every separator of them; what is left are post bytes.
Stuffed(bytes) ==
  LET separators == {i \in DOMAIN bytes : bytes[i] = SEPARATOR_BYTE}
      place == [i \in DOMAIN bytes |-> i + OmittedBefore(separators, i)]
  IN  [n \in 1 .. Len(bytes) + Separators(bytes) |->
         IF \E i \in DOMAIN bytes : place[i] = n
           THEN bytes[CHOOSE i \in DOMAIN bytes : place[i] = n]
           ELSE SEPARATOR_POST_BYTE]

\* The positions of bytes that follow a separator: post bytes, if all is well.
AfterSeparator(bytes) == {i \in 2 .. Len(bytes) : bytes[i - 1] = SEPARATOR_BYTE}

Misescaped(bytes) == {i \in AfterSeparator(bytes) : bytes[i] # SEPARATOR_POST_BYTE}

Unstuffed(bytes) == Omit(bytes, AfterSeparator(bytes))

-----------------------------------------------------------------------------
(* The header: length, flags, reserved bytes, type                         *)

Header(frame) ==
  [i \in 1 .. PURE_HEADER_SIZE |->
     CASE i = 1 -> PURE_HEADER_SIZE + Len(frame.data)
       [] i = 2 -> IF frame.use_crc THEN USE_CRC_MASK ELSE 0
       [] i = PURE_HEADER_SIZE -> frame.type
       [] OTHER -> 0]

HeaderSizeFits(header) == header[1] \in PURE_HEADER_SIZE .. MAX_FRAME_SIZE
HeaderDataSize(header) == header[1] - PURE_HEADER_SIZE
HeaderUsesCrc(header) == (header[2] \div USE_CRC_MASK) % 2 = 1
HeaderType(header) == header[PURE_HEADER_SIZE]

\* The bytes that follow the header: data, checksum and CRC.
BodySize(header) == HeaderDataSize(header) + (IF HeaderUsesCrc(header) THEN 3 ELSE 1)

\* The checksum a receiver expects: stuffed separators of the type and the data
\* count a post byte each.
ExpectedChecksum(header, data) ==
  LET stuffed == Separators(<<HeaderType(header)>> \o data)
  IN  (Sum(header \o data) + stuffed * SEPARATOR_POST_BYTE) % Base

\* parse_buffer() on a complete body: the CRC first, then the checksum.
BodyIsRight(header, body) ==
  LET size == HeaderDataSize(header)
      data == SubSeq(body, 1, size)
  IN  /\ HeaderUsesCrc(header) => SubSeq(body, size + 2, size + 3) = Crc(header \o data)
      /\ body[size + 1] = ExpectedChecksum(header, data)

ParsedFrame(header, body) ==
  [type |-> HeaderType(header),
   data |-> SubSeq(body, 1, HeaderDataSize(header)),
   use_crc |-> HeaderUsesCrc(header)]

-----------------------------------------------------------------------------
(* Writing a frame                                                         *)

\* The checksum of the constructor: stuffed separators of header and data count.
Checksum(frame) ==
  LET covered == Header(frame) \o frame.data
  IN  (Sum(covered) + Separators(covered) * SEPARATOR_POST_BYTE) % Base

Trailer(frame) ==
  <<Checksum(frame)>> \o (IF frame.use_crc THEN Crc(Header(frame) \o frame.data) ELSE <<>>)

\* The bytes of a frame, before they are put at positions of a buffer.
Image(frame) ==
  <<SEPARATOR_BYTE, SEPARATOR_BYTE>>
    \o Stuffed(Header(frame) \o frame.data \o Trailer(frame))

\* Mutant: checksum and CRC are taken to need no post byte.
get_buffer_sizePlain(frame) ==
  FRAME_HEADER_SIZE + Len(frame.data) + Separators(Header(frame) \o frame.data)
    + Len(Trailer(frame))

get_buffer_size(frame) ==
  FRAME_HEADER_SIZE + Len(frame.data) + Separators(Header(frame) \o frame.data)
    + Len(Trailer(frame)) + Separators(Trailer(frame))

\* fill_buffer(): its position is a uint8_t, so a byte of the image lands at its
\* index modulo SizeBase; a byte no write reaches keeps what new[] left, `stale`.
fill_buffer(frame, stale) ==
  LET image == Image(frame)
      WrittenAt(i) == {j \in DOMAIN image : (j - 1) % SizeBase = i - 1}
  IN  [i \in 1 .. get_buffer_size(frame) |->
         IF WrittenAt(i) = {} THEN stale ELSE image[Max(WrittenAt(i))]]

-----------------------------------------------------------------------------
(* What is a frame, for a reader of the line who sees all of it            *)

\* The bytes between two positions of a line, after two separators, are a frame:
\* every separator in them is escaped, and unescaped they are a header, as much
\* data as it says, the checksum of both and the CRC of both if it says so.
IsFrame(bytes) ==
  LET payload == Unstuffed(bytes)
      header == SubSeq(payload, 1, PURE_HEADER_SIZE)
      body == SubSeq(payload, PURE_HEADER_SIZE + 1, Len(payload))
  IN  /\ bytes[1] # SEPARATOR_BYTE
      /\ bytes[Len(bytes)] # SEPARATOR_BYTE
      /\ Misescaped(bytes) = {}
      /\ Len(payload) > PURE_HEADER_SIZE
      /\ HeaderSizeFits(header)
      /\ Len(body) = BodySize(header)
      /\ BodyIsRight(header, body)

FrameOf(bytes) ==
  LET payload == Unstuffed(bytes)
  IN  ParsedFrame(SubSeq(payload, 1, PURE_HEADER_SIZE),
                  SubSeq(payload, PURE_HEADER_SIZE + 1, Len(payload)))

\* The frames on a line, each with the positions of its first and last byte.
FramesOn(line) ==
  LET Starts == {i \in 1 .. Len(line) - FRAME_HEADER_SIZE :
                   line[i] = SEPARATOR_BYTE /\ line[i + 1] = SEPARATOR_BYTE}
      Here(i, j) == SubSeq(line, i + FRAME_SEPARATORS_COUNT, j)
      Places == {p \in Starts \X DOMAIN line :
                   p[2] >= p[1] + FRAME_HEADER_SIZE /\ IsFrame(Here(p[1], p[2]))}
  IN  {[first |-> p[1], last |-> p[2], frame |-> FrameOf(Here(p[1], p[2]))] : p \in Places}
=============================================================================
