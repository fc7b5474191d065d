-------------------------- MODULE TransportReceiver --------------------------
(***************************************************************************)
(* TransportLevelHandler's receiving half (src/src/transport/              *)
(* protocol_transport.cpp): read_data moves bytes of the serial line into  *)
(* the buffer, process_data looks for frames in it, one byte per turn of   *)
(* its loop, and queues those it finds.                                    *)
(*                                                                         *)
(* buffer_ is the sequence that the ring implements (CircularBuffer).  An  *)
(* index of the code is one less than the index of a sequence here.        *)
(***************************************************************************)
EXTENDS FrameCodec

CONSTANTS Capacity,             \* of the buffer
          Lines,                \* the runs of bytes that the line may bring
          Counts,               \* the numbers of bytes a stream may have available
          FRAME_TIMEOUT,        \* in ticks of Tick
          MaxAge,               \* bound: a partial frame's age is counted so far
          LastReset             \* bound: resets come before more bytes were received

ASSUME ReceiverAssumption ==
  /\ Capacity \in Nat \ {0}
  /\ Lines \subseteq Bytes /\ Counts \subseteq Nat
  /\ {FRAME_TIMEOUT, MaxAge, LastReset} \subseteq Nat

VARIABLES
  line,                 \* the bytes the line brings, the first `received` of them read
  received,
  buffer_, pos_, sep_count_, frame_start_found_,
  current_frame_,       \* the parsed header, <<>> for FRAME_EMPTY
  incoming_queue_,
  \* process_data's own
  phase,                \* the call that comes next, or the loop
  bytes_to_drop, buf_size,
  \* history
  intact,               \* the frames on the line, by FramesOn
  start,                \* where on the line the header of current_frame_ starts
  found,                \* every frame put into incoming_queue_, with its place
  lost,                 \* how far bytes were thrown away unprocessed
  age                   \* of the partial frame

parser == <<pos_, sep_count_, frame_start_found_, current_frame_>>
history == <<start, found, lost, age>>
vars == <<line, intact, received, buffer_, parser, incoming_queue_, phase, bytes_to_drop,
          buf_size, history>>

Init ==
  /\ line \in Lines
  /\ intact = FramesOn(line)
  /\ received = 0
  /\ buffer_ = <<>> /\ pos_ = 0 /\ sep_count_ = 0
  /\ frame_start_found_ = FALSE /\ current_frame_ = <<>>
  /\ incoming_queue_ = <<>>
  /\ phase = "read" /\ bytes_to_drop = 0 /\ buf_size = 0
  /\ start = 0 /\ found = <<>> /\ lost = 0 /\ age = 0

\* How many bytes of the line have left the buffer again.
Gone == received - Len(buffer_)

Least(a, b) == IF a < b THEN a ELSE b
Without(n) == SubSeq(buffer_, n + 1, Len(buffer_))

\* Mutant: the count of separators survives the frame it was for.
ForgetFrameNotCount ==
  /\ pos_' = 0
  /\ frame_start_found_' = FALSE
  /\ current_frame_' = <<>>
  /\ age' = 0
  /\ UNCHANGED sep_count_

\* The four assignments that give up a partial frame.
ForgetFrame ==
  /\ pos_' = 0
  /\ sep_count_' = 0
  /\ frame_start_found_' = FALSE
  /\ current_frame_' = <<>>
  /\ age' = 0

-----------------------------------------------------------------------------
(* read_data, and the calls that throw bytes or frames away                *)

ReadWithSpace(count) ==
  /\ count <= Capacity - Len(buffer_)
  /\ buffer_' = buffer_ \o SubSeq(line, received + 1, received + count)
  /\ UNCHANGED <<parser, lost, age>>

\* Mutant: after an overflow the parser goes on where it was.
ForgetStartedNever == UNCHANGED <<parser, age>>

ForgetStarted == IF frame_start_found_ THEN ForgetFrame ELSE UNCHANGED <<parser, age>>

\* The oldest bytes make room; the partial frame they belong to is given up.
ReadWithOverflow(count) ==
  LET excess == count - (Capacity - Len(buffer_))
  IN  /\ excess > 0
      /\ buffer_' = Without(excess) \o SubSeq(line, received + 1, received + count)
      /\ ForgetStarted
      /\ lost' = Gone + excess

\* The stream has `count` bytes available.
read_data(count) ==
  /\ phase = "read"
  /\ count <= Least(Capacity, Len(line) - received)
  /\ ReadWithSpace(count) \/ ReadWithOverflow(count)
  /\ received' = received + count
  /\ phase' = "process"
  /\ UNCHANGED <<line, intact, incoming_queue_, bytes_to_drop, buf_size, start, found>>

reset_protocol ==
  /\ phase = "read"
  /\ buffer_' = Without(Least(Len(buffer_), pos_))
  /\ ForgetFrame
  /\ lost' = Gone + Least(Len(buffer_), pos_)
  /\ UNCHANGED <<line, intact, received, incoming_queue_, phase, bytes_to_drop, buf_size,
                 start, found>>

clear_ ==
  /\ phase = "read"
  /\ buffer_' = <<>>
  /\ ForgetFrame
  /\ lost' = received
  /\ UNCHANGED <<line, intact, received, incoming_queue_, phase, bytes_to_drop, buf_size,
                 start, found>>

\* drop(n) forgets the n oldest frames, pop hands one over.
drop(n) ==
  /\ phase = "read"
  /\ incoming_queue_' = SubSeq(incoming_queue_, Least(n, Len(incoming_queue_)) + 1,
                               Len(incoming_queue_))
  /\ UNCHANGED <<line, intact, received, buffer_, parser, phase, bytes_to_drop, buf_size,
                 history>>

pop == incoming_queue_ # <<>> /\ drop(1)

-----------------------------------------------------------------------------
(* process_data, up to its loop                                            *)

\* enum class FrameStatus
FrameStatus == [FRAME_COMPLETE |-> 0, FRAME_HEADER_ONLY |-> 1, FRAME_EMPTY |-> 2]
Status == IF current_frame_ = <<>> THEN "FRAME_EMPTY" ELSE "FRAME_HEADER_ONLY"

\* The test for a timeout.  frame_start_ is never assigned, so the time since
\* then is that since the clock's epoch: any time.
MayTimeOut == FrameStatus[Status] > FrameStatus["FRAME_EMPTY"]

FrameTimesOut ==
  /\ buffer_' = Without(Least(Len(buffer_), pos_))
  /\ ForgetFrame
  /\ lost' = Gone + Least(Len(buffer_), pos_)

process_data ==
  /\ phase = "process"
  /\ \E late \in BOOLEAN :
       IF MayTimeOut /\ late THEN FrameTimesOut ELSE UNCHANGED <<buffer_, parser, lost, age>>
  /\ phase' = IF buffer_' = <<>> THEN "read" ELSE "loop"
  /\ buf_size' = Len(buffer_')
  /\ bytes_to_drop' = 0
  /\ UNCHANGED <<line, intact, received, incoming_queue_, start, found>>

-----------------------------------------------------------------------------
(* Turns of the loop while no frame has started                            *)


\* Mutant: the last byte stays for the next call.
MoreBytesButOne == pos_ + 1 < buf_size

MoreBytes == pos_ < buf_size
Turn == phase = "loop" /\ MoreBytes
Here == buffer_[pos_ + 1]

ScanSeparator ==
  /\ Turn /\ ~frame_start_found_ /\ Here = SEPARATOR_BYTE
  /\ bytes_to_drop' = IF pos_ + 1 - bytes_to_drop > FRAME_SEPARATORS_COUNT
                        THEN pos_ + 1 - FRAME_SEPARATORS_COUNT ELSE bytes_to_drop
  /\ pos_' = pos_ + 1
  /\ UNCHANGED <<line, intact, received, buffer_, sep_count_, frame_start_found_,
                 current_frame_, incoming_queue_, phase, buf_size, history>>

ScanGarbage ==
  /\ Turn /\ ~frame_start_found_ /\ Here # SEPARATOR_BYTE
  /\ pos_ - bytes_to_drop # FRAME_SEPARATORS_COUNT
  /\ bytes_to_drop' = pos_ + 1
  /\ pos_' = pos_ + 1
  /\ UNCHANGED <<line, intact, received, buffer_, sep_count_, frame_start_found_,
                 current_frame_, incoming_queue_, phase, buf_size, history>>

ScanStart ==
  /\ Turn /\ ~frame_start_found_ /\ Here # SEPARATOR_BYTE
  /\ pos_ - bytes_to_drop = FRAME_SEPARATORS_COUNT
  /\ frame_start_found_' = TRUE
  /\ buffer_' = Without(bytes_to_drop)
  /\ buf_size' = buf_size - bytes_to_drop
  /\ pos_' = pos_ - bytes_to_drop + 1
  /\ bytes_to_drop' = 0
  /\ UNCHANGED <<line, intact, received, sep_count_, current_frame_, incoming_queue_, phase,
                 history>>

ScanEnd ==
  /\ phase = "loop" /\ ~MoreBytes
  /\ buffer_' = Without(bytes_to_drop)
  /\ pos_' = pos_ - bytes_to_drop
  /\ bytes_to_drop' = 0
  /\ phase' = "read"
  /\ UNCHANGED <<line, intact, received, sep_count_, frame_start_found_, current_frame_,
                 incoming_queue_, buf_size, history>>

-----------------------------------------------------------------------------
(* Turns of the loop inside a frame                                        *)

Separator == IF Here = SEPARATOR_BYTE THEN 1 ELSE 0

\* The bytes of the buffer up to this one, and how many they are unescaped.
Stage == SubSeq(buffer_, 1, pos_ + 1)

\* Mutant: post bytes are counted.
LogicalRaw == pos_ + 1

Logical == pos_ + 1 - (sep_count_ + Separator)

\* Mutant: every frame is taken to end with a CRC.
NeededWithCrc == IF current_frame_ = <<>> THEN FRAME_HEADER_SIZE
                 ELSE HeaderDataSize(current_frame_) + 3

\* What the header and the body need.
Needed == IF current_frame_ = <<>> THEN FRAME_HEADER_SIZE ELSE BodySize(current_frame_)

\* Escapes are checked after the two separators and the byte that follows them in
\* a header, and from the start in a body.
Wrong ==
  IF current_frame_ = <<>>
    THEN Misescaped(Stage) \ (1 .. FRAME_SEPARATORS_COUNT + 1)
    ELSE Misescaped(Stage)

\* Mutant: nothing is dropped after a wrong escape.
ResumeHere(wrong) == 0

\* How much is dropped after a first wrong post byte: its separator stays, it may start
\* another frame.
Resume(wrong) == wrong - 2

\* Mutant: the parser trusts that it was called for separators.
StartsRightAlways == TRUE

\* parse_buffer's look at the separators.
StartsRight ==
  SubSeq(buffer_, 1, FRAME_SEPARATORS_COUNT) = <<SEPARATOR_BYTE, SEPARATOR_BYTE>>

FrameByte ==
  /\ Turn /\ frame_start_found_ /\ Logical # Needed
  /\ sep_count_' = sep_count_ + Separator
  /\ pos_' = pos_ + 1
  /\ UNCHANGED <<line, intact, received, buffer_, frame_start_found_, current_frame_,
                 incoming_queue_, phase, bytes_to_drop, buf_size, history>>

WrongPostByte ==
  /\ Turn /\ frame_start_found_ /\ Logical = Needed /\ Wrong # {}
  /\ \E wrong \in Wrong :
       /\ \A other \in Wrong : wrong <= other
       /\ buffer_' = Without(Resume(wrong))
  /\ buf_size' = Len(buffer_')
  /\ ForgetFrame
  /\ UNCHANGED <<line, intact, received, incoming_queue_, phase, bytes_to_drop, start, found,
                 lost>>

HeaderEnd ==
  LET header == Unstuffed(SubSeq(Stage, FRAME_SEPARATORS_COUNT + 1, pos_ + 1))
  IN  /\ Turn /\ frame_start_found_ /\ current_frame_ = <<>>
      /\ Logical = Needed /\ Wrong = {}
      /\ buffer_' = Without(pos_ + 1)
      /\ buf_size' = buf_size - (pos_ + 1)
      /\ IF StartsRight /\ HeaderSizeFits(header)
           THEN /\ pos_' = 0 /\ sep_count_' = 0
                /\ current_frame_' = header
                /\ UNCHANGED <<frame_start_found_, age>>
           ELSE ForgetFrame
      /\ start' = Gone + 1
      /\ UNCHANGED <<line, intact, received, incoming_queue_, phase, bytes_to_drop, found, lost>>

\* The body is complete: the frame is queued if its CRC and checksum are right.
BodyEnd ==
  LET body == Unstuffed(Stage)
      frame == ParsedFrame(current_frame_, body)
      place == [first |-> start, last |-> Gone + pos_ + 1, frame |-> frame]
  IN  /\ Turn /\ frame_start_found_ /\ current_frame_ # <<>>
      /\ Logical = Needed /\ Wrong = {}
      /\ buffer_' = Without(pos_ + 1)
      /\ buf_size' = Len(buffer_')
      /\ IF BodyIsRight(current_frame_, body)
           THEN /\ incoming_queue_' = Append(incoming_queue_, frame)
                /\ found' = Append(found, place)
           ELSE UNCHANGED <<incoming_queue_, found>>
      /\ ForgetFrame
      /\ UNCHANGED <<line, intact, received, phase, bytes_to_drop, start, lost>>

Loop == \/ ScanSeparator \/ ScanGarbage \/ ScanStart \/ ScanEnd
        \/ FrameByte \/ WrongPostByte \/ HeaderEnd \/ BodyEnd

\* Time passes between two turns of the protocol's loop.
Tick ==
  /\ phase = "read" /\ frame_start_found_ /\ age < MaxAge
  /\ age' = age + 1
  /\ UNCHANGED <<line, intact, received, buffer_, parser, incoming_queue_, phase,
                 bytes_to_drop, buf_size, start, found, lost>>

Next == \/ \E count \in Counts : read_data(count)
        \/ process_data \/ Loop \/ pop \/ Tick
        \/ \E n \in 1 .. Len(incoming_queue_) : drop(n)

Spec == Init /\ [][Next]_vars

\* With the calls that ProtocolHandler never makes.
Reset == received <= LastReset /\ (reset_protocol \/ clear_)
SpecWithResets == Init /\ [][Next \/ Reset]_vars

\* process_data runs to its end: its loop is called to the end once begun.
FairSpec == SpecWithResets /\ WF_vars(process_data) /\ WF_vars(Loop)

-----------------------------------------------------------------------------
(* Properties                                                              *)

BufferTypes ==
  /\ line \in Bytes
  /\ received \in 0 .. Len(line)
  /\ buffer_ \in Bytes
  /\ Len(buffer_) <= Capacity
  /\ pos_ \in Nat /\ sep_count_ \in Nat /\ bytes_to_drop \in Nat /\ buf_size \in Nat
  /\ frame_start_found_ \in BOOLEAN
  /\ phase \in {"read", "process", "loop"}

TypeOK ==
  /\ BufferTypes
  /\ current_frame_ \in Bytes /\ Len(current_frame_) \in {0, PURE_HEADER_SIZE}
  /\ start \in Nat /\ lost \in Nat /\ age \in Nat

\* The loop never leaves the bytes it has: positions, counts and buf_size (all
\* size_t, or an int taken for one) agree with the buffer and never wrap below 0.
PositionsAgree ==
  /\ phase = "loop" => buf_size = Len(buffer_)
  /\ pos_ <= Len(buffer_)
  /\ sep_count_ <= pos_ /\ bytes_to_drop <= pos_

\* Whatever precedes a frame, however the line is cut into reads, and after an
\* overflow too, only frames that are on the line are found, each once and in
\* the order of the line.
FoundOnTheLine ==
  /\ \A k \in DOMAIN found : found[k] \in intact
  /\ \A k, l \in DOMAIN found : k < l => found[k].last < found[l].first

Settled(e) == e.first <= lost \/ \E k \in DOMAIN found : found[k] = e

\* No frame goes past unseen: when its bytes have left the buffer, it was found,
\* or it was thrown away by an overflow or a reset.
NothingMissed == \A e \in intact : e.last <= Gone => Settled(e)

\* Between calls the parser has looked at every byte it has, and holds only bytes
\* that may yet become a frame: it waits for at least one more.
NothingHeldBack ==
  phase = "read" =>
    /\ pos_ = Len(buffer_)
    /\ IF frame_start_found_ THEN pos_ - sep_count_ < Needed
       ELSE pos_ <= FRAME_SEPARATORS_COUNT

\* A false start, or a frame cut short, delays the frame behind it by the bytes of
\* one body at most, separators not counted: they do not bring its end nearer.
LongestBody == MAX_FRAME_SIZE - PURE_HEADER_SIZE + 3
Behind(e) == {i \in e.last + 1 .. received : line[i] # SEPARATOR_BYTE}
FoundInTime ==
  phase = "read" => \A e \in intact : Cardinality(Behind(e)) >= LongestBody => Settled(e)

\* Every call of process_data ends.
LoopEnds == phase = "loop" ~> phase = "read"

\* The reference document (doc/protocol_reference.rst:121): a partial frame older
\* than the frame timeout is given up when bytes are processed.
OldPartialFrameDropped ==
  [][phase = "process" /\ phase' # "process" => age' <= FRAME_TIMEOUT]_vars
=============================================================================
