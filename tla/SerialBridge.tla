----------------------------- MODULE SerialBridge -----------------------------
(***************************************************************************)
(* tools/remote_serial_bridge/main.cpp: one loop that carries bytes from a *)
(* serial device to a TCP peer and back, over the buffer of SerialStream   *)
(* (tools/utils/serial_stream.cpp).                                        *)
(*                                                                         *)
(* The device and the peer send the numbers 1, 2, 3, ...  The socket is a  *)
(* blocking one: a write waits while the send buffer of the system is full *)
(* and the peer reads nothing.  The POSIX build also waits in              *)
(* read_socket() until the socket has bytes or is closed; the Windows      *)
(* build asks first and goes on when there are none.  The serial port      *)
(* takes what it takes: write_array() does not look at the result.         *)
(***************************************************************************)
EXTENDS Integers, Sequences, SequencesExt

CONSTANTS
  Builds,              \* the builds there are: TRUE for POSIX, FALSE for Windows
  SERIAL_BUFFER_SIZE,  \* 2048 in the code
  SOCKET_BUFFER_SIZE,  \* 2048 in the code
  SEND_BUFFER,         \* bytes the system holds for the peer
  MaxBytes,            \* bound: bytes each side sends
  MaxKeys              \* bound: keys that are pressed and are not ESC

ASSUME BridgeAssumption ==
  /\ Builds \subseteq BOOLEAN
  /\ {SERIAL_BUFFER_SIZE, SOCKET_BUFFER_SIZE, SEND_BUFFER} \subseteq Nat \ {0}

Key == {"NO_KB_HIT", "ESC", "other"}

VARIABLES
  posix,        \* which build runs
  pc,           \* the step of the loop that comes next
  kb,           \* the key that get_kb_hit will find
  keys,         \* other keys pressed so far
  device_line,  \* bytes of the device that the system holds
  device_sent,
  buffer_,      \* the ring of SerialStream
  serial_buffer,
  socket_took,  \* what the socket has taken for the peer
  unread,       \* how much of it the peer has not read
  peer_line,    \* bytes of the peer that the system holds
  peer_sent,
  conn,         \* open; closed by the peer, which may still read; or broken
  device_got,
  port_lost,    \* how many bytes the writes to the port left out
  port_up       \* the serial port works

device == <<device_line, device_sent>>
serial == <<buffer_, serial_buffer>>
to_peer == <<socket_took, unread>>
peer == <<peer_line, peer_sent, conn>>
to_device == <<device_got, port_lost, port_up>>
vars == <<posix, pc, kb, keys, device, serial, to_peer, peer, to_device>>

Step(from, to) == pc = from /\ pc' = to

First(n, s) == SubSeq(s, 1, n)
Rest(n, s) == SubSeq(s, n + 1, Len(s))

-----------------------------------------------------------------------------
(* The loop                                                                *)

\* Mutant: every key is skipped.
SkipKey == [ESC |-> "key", other |-> "key", NO_KB_HIT |-> "available"]

\* ESC ends the loop; with any other key this round carries nothing.
AfterKey == [ESC |-> "exited", other |-> "key", NO_KB_HIT |-> "available"]

CheckKey ==
  /\ pc = "key" /\ pc' = AfterKey[kb]
  /\ kb' = "NO_KB_HIT"
  /\ UNCHANGED <<posix, keys, device, serial, to_peer, peer, to_device>>

\* SerialStream::available: the system is asked only when the ring is empty; a
\* port that fails brings nothing.
Available ==
  /\ Step("available", "read")
  /\ IF buffer_ = <<>> /\ port_up
       THEN \E n \in 0 .. SERIAL_BUFFER_SIZE :
              /\ n <= Len(device_line) /\ (n = 0 => device_line = <<>>)
              /\ buffer_' = First(n, device_line)
              /\ device_line' = Rest(n, device_line)
       ELSE UNCHANGED <<buffer_, device_line>>
  /\ UNCHANGED <<posix, kb, keys, device_sent, serial_buffer, to_peer, peer, to_device>>

\* SerialStream::read_array, of as many bytes as available() said.
ReadArray ==
  /\ Step("read", "send")
  /\ serial_buffer' = buffer_
  /\ buffer_' = <<>>
  /\ UNCHANGED <<posix, kb, keys, device, to_peer, peer, to_device>>

\* Mutant: a write that takes only some of the bytes is not continued.
OnceWritten(rest) == "receive"

AfterTaken(rest) == IF rest = <<>> THEN "receive" ELSE "sending"

\* write_socket: the system takes as many bytes as it has room for, and the write
\* waits for room for the others.
SocketTakes ==
  /\ pc \in {"send", "sending"} /\ conn # "broken"
  /\ \E n \in 1 .. Len(serial_buffer) :
       /\ unread + n <= SEND_BUFFER
       /\ socket_took' = socket_took \o First(n, serial_buffer)
       /\ unread' = unread + n
       /\ pc' = AfterTaken(Rest(n, serial_buffer))
       /\ serial_buffer' = IF pc' = "receive" THEN <<>> ELSE Rest(n, serial_buffer)
  /\ UNCHANGED <<posix, kb, keys, device, buffer_, peer, to_device>>

\* A write that fails ends the program; but if the connection breaks when some bytes
\* are taken, POSIX reports these, and the loop drops the others.
WriteFails ==
  /\ pc \in {"send", "sending"} /\ conn = "broken" /\ serial_buffer # <<>>
  /\ IF posix /\ pc = "sending"
       THEN pc' = "receive" /\ serial_buffer' = <<>>
       ELSE pc' = "exited" /\ UNCHANGED serial_buffer
  /\ UNCHANGED <<posix, kb, keys, device, buffer_, to_peer, peer, to_device>>

NothingToSend ==
  /\ Step("send", "receive")
  /\ serial_buffer = <<>>
  /\ UNCHANGED <<posix, kb, keys, device, serial, to_peer, peer, to_device>>

Send == SocketTakes \/ WriteFails \/ NothingToSend

\* How many of n bytes write_array brings to the port: all of them in the POSIX
\* build, which waits; the Windows build gives up after 2 ms.
PortTakes(n) == IF posix /\ port_up THEN {n} ELSE 0 .. n

\* read_socket and write_array: what the port does not take is lost.
Receive ==
  /\ Step("receive", "key")
  /\ \E n \in 1 .. SOCKET_BUFFER_SIZE :
       /\ n <= Len(peer_line)
       /\ peer_line' = Rest(n, peer_line)
       /\ \E k \in PortTakes(n) :
            /\ device_got' = device_got \o First(k, peer_line)
            /\ port_lost' = port_lost + (n - k)
  /\ UNCHANGED <<posix, kb, keys, device, serial, to_peer, peer_sent, conn, port_up>>

\* Mutant: the Windows build waits as well.
AlwaysWaits == TRUE

Waits == posix

\* A read of a closed connection returns 0, which is not an error: the loop goes
\* on, and so does the Windows build when nothing came or the connection broke.
NothingToReceive ==
  /\ Step("receive", "key")
  /\ peer_line = <<>> \/ conn = "broken"
  /\ Waits => conn = "closed"
  /\ UNCHANGED <<posix, kb, keys, device, serial, to_peer, peer, to_device>>

\* In the POSIX build a read that fails ends the program.
ReadFails ==
  /\ Step("receive", "exited")
  /\ posix /\ conn = "broken"
  /\ UNCHANGED <<posix, kb, keys, device, serial, to_peer, peer, to_device>>

Loop == CheckKey \/ Available \/ ReadArray \/ Send \/ Receive \/ NothingToReceive \/ ReadFails

-----------------------------------------------------------------------------
(* Everybody else                                                          *)

DeviceSends ==
  /\ device_sent < MaxBytes
  /\ device_sent' = device_sent + 1
  /\ device_line' = Append(device_line, device_sent + 1)
  /\ UNCHANGED <<posix, pc, kb, keys, serial, to_peer, peer, to_device>>

PeerSends ==
  /\ peer_sent < MaxBytes /\ conn = "open"
  /\ peer_sent' = peer_sent + 1
  /\ peer_line' = Append(peer_line, peer_sent + 1)
  /\ UNCHANGED <<posix, pc, kb, keys, device, serial, to_peer, conn, to_device>>

PeerReads ==
  /\ unread > 0 /\ conn # "broken"
  /\ unread' \in 0 .. unread - 1
  /\ UNCHANGED <<posix, pc, kb, keys, device, serial, socket_took, peer, to_device>>

ConnectionEnds ==
  /\ \/ conn = "open" /\ conn' \in {"closed", "broken"}
     \/ conn = "closed" /\ conn' = "broken"
  /\ UNCHANGED <<posix, pc, kb, keys, device, serial, to_peer, peer_line, peer_sent, to_device>>

PortFails ==
  /\ port_up
  /\ port_up' = FALSE
  /\ UNCHANGED <<posix, pc, kb, keys, device, serial, to_peer, peer, device_got, port_lost>>

PressKey ==
  /\ kb = "NO_KB_HIT"
  /\ \/ kb' = "ESC" /\ UNCHANGED keys
     \/ keys < MaxKeys /\ kb' = "other" /\ keys' = keys + 1
  /\ UNCHANGED <<posix, pc, device, serial, to_peer, peer, to_device>>

Init ==
  /\ posix \in Builds
  /\ pc = "key" /\ kb = "NO_KB_HIT" /\ keys = 0
  /\ device_line = <<>> /\ buffer_ = <<>> /\ serial_buffer = <<>>
  /\ socket_took = <<>> /\ unread = 0
  /\ peer_line = <<>> /\ device_got = <<>> /\ port_lost = 0 /\ port_up = TRUE
  /\ device_sent = 0 /\ peer_sent = 0 /\ conn = "open"

Next == Loop \/ DeviceSends \/ PeerSends \/ PeerReads \/ ConnectionEnds \/ PortFails \/ PressKey

Spec == Init /\ [][Next]_vars

\* The loop runs until it exits.
FairSpec == Spec /\ WF_vars(Loop)

-----------------------------------------------------------------------------
(* Properties                                                              *)

Numbers(n) == [i \in 1 .. n |-> i]

InOrder(s) == \A i, j \in DOMAIN s : i < j => s[i] < s[j]

\* Nothing is lost, doubled or overtaken but by a write.  Towards the peer every
\* byte is in one place, in order, while the connection stands, however the ring
\* is refilled and a write has to wait.  Towards the device the bytes come in
\* order and none twice, what is missing is what write_array left out, and the
\* POSIX build leaves nothing out while the port works.
LostOnlyByWrites ==
  /\ conn # "broken" =>
       socket_took \o serial_buffer \o buffer_ \o device_line = Numbers(device_sent)
  /\ InOrder(device_got \o peer_line)
  /\ \A i \in DOMAIN (device_got \o peer_line) : (device_got \o peer_line)[i] \in 1 .. peer_sent
  /\ Len(device_got) + Len(peer_line) + port_lost = peer_sent
  /\ posix /\ port_up => port_lost = 0

HasAll == socket_took = Numbers(device_sent)

\* The peer makes room again and again, or the connection breaks; and in the
\* POSIX build, it sends or closes again and again.
PeerReadsOn == []<>(unread < SEND_BUFFER \/ conn = "broken")
PeerSpeaks == []<>(peer_line # <<>> \/ conn # "open")
PeerGoesOn == PeerReadsOn /\ (posix => PeerSpeaks)

\* What the device sends reaches the socket, or the program ends, if the peer goes
\* on and the port works: the loop waits for the peer in both directions in the
\* POSIX build, and in one in the Windows build.
DeviceIsHeard == PeerGoesOn /\ []port_up => []<>(pc = "exited" \/ HasAll)

\* ESC ends the program, if the peer goes on.
EscExits == PeerGoesOn => (kb = "ESC" ~> pc = "exited")
=============================================================================
