--------------------------- MODULE TransportSender ---------------------------
(***************************************************************************)
(* TransportLevelHandler::send_data (src/src/transport/                    *)
(* protocol_transport.cpp): a frame is built, laid out in a buffer of its  *)
(* size and written to the stream; the caller gets the size as a uint8_t   *)
(* and takes 0 for a failure.  A behaviour is one call: nothing is kept    *)
(* from one call to the next.                                              *)
(***************************************************************************)
EXTENDS FrameCodec

CONSTANT Frames                 \* the frames callers ask for

ASSUME FramesAssumption == Frames \subseteq [type : Byte, data : Bytes, use_crc : BOOLEAN]
ASSUME CrcAssumption == \A f \in Frames : Crc(Header(f) \o f.data) \in Byte \X Byte

VARIABLES asked,                \* the arguments of a call
          written,              \* the bytes the call wrote
          returned              \* what it returned, Running until it has
sender_vars == <<asked, written, returned>>

Running == -1

SenderInit == asked \in Frames /\ written = <<>> /\ returned = Running

TooLong(frame) == Len(frame.data) > MAX_FRAME_SIZE - PURE_HEADER_SIZE

SendTooLong ==
  /\ returned = Running
  /\ TooLong(asked)
  /\ returned' = 0
  /\ UNCHANGED <<asked, written>>

\* `stale` is what the new buffer holds where nothing is written.
SendFrame ==
  /\ returned = Running
  /\ ~TooLong(asked)
  /\ \E stale \in {0, SEPARATOR_BYTE} : written' = fill_buffer(asked, stale)
  /\ returned' = get_buffer_size(asked) % SizeBase
  /\ UNCHANGED asked

send_data == SendTooLong \/ SendFrame

SenderSpec == SenderInit /\ [][send_data]_sender_vars

-----------------------------------------------------------------------------
(* Properties                                                              *)

\* The bytes written are the frame asked for: two separators and what a reader
\* of the line takes for that frame.
HoldsTheFrame ==
  LET bytes == SubSeq(written, FRAME_SEPARATORS_COUNT + 1, Len(written))
  IN  /\ Len(written) > FRAME_HEADER_SIZE
      /\ written[1] = SEPARATOR_BYTE /\ written[2] = SEPARATOR_BYTE
      /\ IsFrame(bytes)
      /\ FrameOf(bytes) = asked

\* A caller told of success has put its frame, all of it and nothing else, on
\* the line; one told of failure has written nothing and may try again.
SuccessIsAFrame == IF returned \in {0, Running} THEN written = <<>> ELSE HoldsTheFrame

\* The reference document: a frame carries data of 0..233 bytes
\* (doc/protocol_reference.rst:69), whatever the bytes.
EveryPayloadIsSent == written # <<>> => HoldsTheFrame
=============================================================================
