# A formal model of HaierProtocol

TLA+ specifications of the HaierProtocol library (`src/src/`) and of the
simulators and the serial bridge built on it (`src/tools/`), with TLC model
checking and TLAPS proofs. Paths below are relative to the directory that holds `src/` and
`tla/`; `protocol_transport.cpp` and the like are named without their directory
when it is clear.

The library lets a program talk to an air conditioner, or play one, over a serial
line. It has three layers, each called by the one above, all in one thread that
calls `ProtocolHandler::loop()` again and again:

```
 application, handlers        send_message, set_*_handler, callbacks
        |
 ProtocolHandler              transactions: queue, retries, cooldown, timeouts
        |  read_data, process_data, pop, drop, send_data
 TransportLevelHandler        frames out of bytes, bytes out of frames
        |  HaierFrame (codec), CircularBuffer (bytes in between)
 ProtocolStream               available, read_array, write_array (external)
```

## Inventory

| Component | State it keeps | Operations | What makes it correct |
|---|---|---|---|
| `ProtocolHandler` (`haier_protocol.*`) | `state_`, queue of outgoing messages with tries and retry interval, three time points, two intervals, the type last sent | `loop`, `send_message`, `send_message_without_answer`, `send_answer`, the two setters, handler registration | one request open at a time and it is the oldest; tries add up; nothing is dropped unseen; cooldown, retry interval and answer time are respected; the queue drains |
| `TransportLevelHandler`, receiving (`protocol_transport.*`) | ring of bytes, `pos_`, `sep_count_`, `frame_start_found_`, the frame under construction, queue of frames | `read_data`, `process_data`, `pop`, `drop`, `reset_protocol`, `clear_` | exactly the frames on the line are found, in order, soon enough; positions stay inside the buffer; the loop ends |
| `TransportLevelHandler`, sending | none between calls | `send_data` | success means that the frame asked for, and nothing else, is on the line |
| `HaierFrame` (`haier_frame.*`) | type, data, checksum, CRC, status | build, `fill_buffer`, `get_buffer_size`, `parse_buffer` | what is written is read back; sizes count every escape |
| `CircularBuffer` (`circular_buffer.h`) | array, `head_`, `tail_`, `is_empty_` | `push`, `pop`, `drop`, `clear`, `reserve`, `get_size`, `operator[]` | it is a bounded queue of bytes; full and empty are told apart |
| `HaierMessage`, frame types, log, stream interface | values and callbacks | copies, formatting | no behaviour of its own beyond memory management |
| hOn server and simulator (`tools/utils/hon_server.*`, `tools/hon_simulator`, `simulator_base.*`) | control packet, configuration mode, alarm bits, `alarm_paused`, `alarm_stopped`, time of the last report, flags of the keys | message handlers, `process_alarms`, `start_alarm`, `reset_alarms`, `preloop`, key handlers in a second thread | an alarm is reported soon after it starts and until it is confirmed or stopped; an answer shows what was asked for; a handler changes only what an accepted request names; what two threads write is not lost |
| SmartAir2 server, simulation, console (`tools/utils/smartair2_server.*`, `tools/smartair2_simulator`) | packet of the unit, settings, phase, compressor, room temperature, hold time, time of the control file | message handlers, `load_control`, `simulate`, `write_status`; the console writes the control file from another process | settings reach the simulator as a whole, and the last ones do; phase, compressor and room agree; a cooling unit keeps cycling |
| Remote serial bridge (`tools/remote_serial_bridge`) | two buffers | one loop between socket and serial port | bytes of each side reach the other in order, and only writes lose any; ESC ends it |
| `SerialStream`, console | a ring, a file handle | `available`, `read_array`, `get_kb_hit` | modelled where the bridge uses them |

How they meet: `loop()` first lets the transport read and parse, then looks at the
parsed frames; the handlers it runs call back into it (`send_message`,
`send_answer`), in the middle of a step, and may take long. In the simulators a
second thread (keys) or process (console) changes state that handlers read.

Hard behaviours, each listed in `PROJECT.json` under `hazards` at the line where
it bites:

- *Time.* Three deadlines with three owners; `now` is read once per iteration,
  before handlers and writes that take time and that set deadlines themselves.
- *Reentrance.* Handlers queue messages between the moment an entry is looked at
  and the moment it is removed.
- *Cut and damaged input.* A frame may be cut anywhere by a read, follow noise, or
  miss bytes; the parser keeps its place over calls in four variables.
- *Limits.* Sizes are `uint8_t` in places, `size_t` differences may wrap, the ring
  overflows, tries run out.
- *Partial failure.* A write that is refused, a message that can never be written.
- *Unreliable answers.* Any frame counts as the answer, whoever it is from and
  whatever it answers; lines lose and delay frames.
- *Two threads on one byte.* The hOn simulator's keys change bit fields that the
  protocol thread changes too.
- *Two processes on one file.* The console replaces the control file while the
  simulator reads it, and its threads share a temporary name.
- *Settings that move under a calculation.* The room model remembers a deadline, a
  phase and a drift that were computed from settings which have changed since.
- *Blocking calls* in a loop that has other things to carry.

## The modules

| Module | Models | Kind |
|---|---|---|
| `RequestQueue` | what `ProtocolHandler` promises to who queues messages | abstract specification |
| `ProtocolHandler` | `haier_protocol.{h,cpp}` | state machine, implements `RequestQueue` |
| `ProtocolHandlerProofs` | - | theorems about it, that it implements `RequestQueue` |
| `ByteQueue` | what `CircularBuffer` promises | abstract specification |
| `CircularBuffer` | `circular_buffer.h`, and the bytes of `read_data` | state machine, implements `ByteQueue` |
| `Omission` | a sequence without the bytes at some positions | operator |
| `FrameCodec` | `haier_frame.{h,cpp}`, the escapes of `process_data` | operators |
| `TransportSender` | `send_data` | state machine over `FrameCodec` |
| `TransportReceiver` | the rest of `protocol_transport.{h,cpp}` | state machine over `FrameCodec` |
| `TransportProofs` | - | theorems about the receiver and the sender |
| `CircularBufferProofs` | - | theorems about the ring, that it implements `ByteQueue` |
| `ProtocolLink` | two `ProtocolHandler`s and the line between them | composition |
| `ProtocolLinkProofs` | - | theorems about it |
| `HonAlarms` | the alarms of `hon_server.cpp`, `preloop()` and the alarm keys | state machine over `ProtocolHandler` |
| `HonAlarmsProofs` | - | theorems about it |
| `HonControl` | the control packet of `hon_server.cpp`, the other keys, two threads | state machine |
| `HonControlProofs` | - | theorems about it |
| `SmartAir2Sim` | `smartair2_sim_control.cpp`, commands of `smartair2_server.cpp`, keys | state machine |
| `SharedSettings` | what the control file is for | abstract specification |
| `ControlFile` | `write_control` of the console, the reading side of `load_control` | state machine, implements `SharedSettings` |
| `SmartAir2Proofs` | - | theorems about the room model and the control file |
| `SerialBridge` | `remote_serial_bridge/main.cpp`, `SerialStream` | state machine |
| `SerialBridgeProofs` | - | theorem about it |
| `MC...` | constants for TLC | - |

Every definition that stands for code is listed with its lines in `PROJECT.json`
(`map`). A definition preceded by `Mutant` is a plausible slip in the code, used
only to show that a property would notice it.

### ProtocolHandler

State: `state_`, `outgoing_messages_`, `incoming_queue_`, the two intervals and
`last_message_type_` as in the class. A time point is kept as the time left until
it (`cooldown_left`, `answer_left`, `retry_left`), with -1 for every time point
that has passed: the code compares time points with `now` only, and -1 is all that
`>=` and `>` can tell of the past. A queue entry also keeps `granted`, the tries it
got at first, for the properties.

One step of `loop` is one call of `loop()`, with all that it does: the frames that
arrive in `read_data`/`process_data` (`Arrivals`), the message handler (what it
queues, whether it answers, how long it takes: `HandlerRuns`), the write and how
long it blocks. The actions are the ways through the function: `LoopIdle` with
`Rest`, `Transmit`, `Refuse`, `Discard`; `LoopExpire`, `LoopRetry`, `LoopAnswer`,
`LoopWait`. The application's calls and the clock (`Tick`) are actions between two
calls of `loop`. `calls` is what a step did that others can see, `tried`,
`since_write`, `since_try`, `gap`, `window` record when; no action reads them.

A message is a submission: the same data sent twice is two messages. Which handler
a type is registered for is left out, because the maps only choose the callback;
a frame therefore is one value. Messages that `write_message_` refuses are the set
`Unsendable`.

### CircularBuffer

The ring with its array, positions and flag, every public operation as an action
and the way `read_data` uses `reserve` once or twice. `result` is what the last
operation returned. `Contents` is the refinement mapping to `ByteQueue`. Left out:
the copy constructor and `operator=`, which nothing in the repository calls.

### FrameCodec, TransportSender, TransportReceiver

`FrameCodec` says what a frame is on the line (`IsFrame`, `FramesOn`: for a reader
who sees all of it), how one is written (`Image`, `fill_buffer`, with positions
modulo the width of `uint8_t`) and parsed (`BodyIsRight`, `ParsedFrame`). The CRC is
a constant operator; `MCTransportSender` gives it the code's CRC-16/ARC, so nothing
that is proved rests on a particular CRC.

`TransportReceiver` has `buffer_` as a sequence (that the ring is one is what the
run `ring` shows) and the parser's four variables. `read_data`, `reset_protocol`,
`clear_`, `drop`, `pop` are one action each. `process_data` is its beginning (the
timeout test) followed by turns of its loop, one action for each way through the
body: `ScanSeparator`, `ScanGarbage`, `ScanStart` and `ScanEnd` before a frame has
started, `FrameByte`, `WrongPostByte`, `HeaderEnd` and `BodyEnd` inside one. While
`phase` is `"loop"` no other action may run, as in the code. The history variables
`intact`, `found`, `start` and `lost` relate what the parser found to the line.

`ProtocolHandler` never calls `reset_protocol` or `clear_`; `Spec` leaves them out,
`SpecWithResets` and `FairSpec` have them, as long as no more than `LastReset` bytes were
received.

### ProtocolLink

Two instances of `ProtocolHandler`, `M` (module, the controller) and `D` (device),
with their variables prefixed, and the line: a sequence of frames with their age in
each direction. A side's turn (`ModuleLoop`, `DeviceLoop`) is one `Iteration` of the handler
with the frames it takes off its line; what `calls` says was written goes on the
other line. The message handler of both sides answers requests at once. The line is
external: it keeps the order, delivers within `Delay` units, and loses frames
(bounded by `MaxLosses` per request). Both loops run once between two ticks of the
clock. `speakers` is which sides send anything but answers, chosen out of `Speakers` at the
start: of two that both ask, neither can tell an answer from a request. `heard` remembers the last answer handler that ran, with the request it was
run for and the frame it was given; `losses` counts lost frames since a request was
first written. No action reads `heard`; `losses` bounds losses.

### HonAlarms

One action per block of the protocol thread, in the order of the code: `Trigger` and
`Reset` (the two alarm flags in `preloop()`), `process_alarms`, `Loop`, which is
one iteration of a `ProtocolHandler` instance with the server's handlers
(`HandlerRun`: what is answered; `Dispatch`: what the confirmation, a
STOP_FAULT_ALARM or a query does to `alarm_paused` and `alarm_stopped`, through the
message handler when the queue is idle and through the answer handler when a report
waits). `Key` is the main thread, at any moment. A report is the set of alarms it
lists. Alarms are numbers as in the code, so that the byte that `reset_alarms`
clears, by `SizeOfSizeT`, and the numbers that `start_alarm` refuses are the code's. `wait`,
`hurried`, `silenced`, `raced` are history.

### HonControl

`Bytes` is the layout of `HaierPacketControl`: which fields share a byte, and how many
values each holds (`Size`; an assignment is taken modulo it). A handler's work is a
*job*: changes, each to fields of one byte, carried out by `Load` and `Store`, with the
other thread's steps in between. That is what the code's bit-field assignments
compile to; they are a data race, and loading and storing a byte is the freedom
modelled. The value that `1 - field` reads is read when the key is handled. What a
handler does is translated branch by branch: `status_request_handler` with
`process_single_parameter` (each case its own test and assignment, `Branch`),
`report_network_status_handler`, and the handlers that answer with other data, each giving
the changes it makes, the configuration mode it leaves and the `result` it returns. `Take`
is a request of the peer and what its handler does, `SendAnswer` the answer after the job
is done, `TogglePower` and `EnterPairing` the flags `preloop()` looks at. `changed` (what the
protocol thread changed since the request came), `stored`, `missed` and `offered` are history. `Followed` are the fields a run follows. A change of another field
of a byte with followed ones still loads and stores that byte, and so may undo a change of
the other thread; a change to a byte of which nothing is followed is left out.

### SmartAir2Sim

`LoadControl`, `Simulate`, `TakeKeys`, `HandleRequest` are the protocol thread's round;
`PressKey` the main thread; `Edit` a new control file. `Simulate` follows the
branches of `simulate()`: dynamics off, power off, hold, a mode that
conditions (`auto`, `cool`, `heat`), passive drift. Temperatures are integers and
time is in units. How far the room moves in an iteration is a rate out of `Rates`
times the time that passed, where the code computes the rate from
`seconds_to_target` or `passive_seconds_per_degree`; a distance below 0.02 degrees
is none. `hold_left` is `hold_until - now`. `drift_seconds`, which
`doc/smartair2_simulator_bench_en.rst:244` describes, is read and used nowhere.
Fan, swing, humidity and the other bytes are left out: `simulate()` only logs
them; an `ac_mode` byte that is none of the five behaves as `fan`.

### ControlFile

Each request of the console is three steps of a thread: `Begin` opens the temporary
file (which truncates it), `Write` puts the text in it and closes it, `Replace` renames it. The
simulator's `Stat` compares whole seconds, `Read` reads. `MinGap` is the least time between the text of
one request and the next request. Files are told apart from names:
an open file keeps its identity under a rename, which is what makes an overlap of two
threads hard. `SharedSettings` is what this is for: settings are put and applied as a
whole.

### SerialBridge

One action per step of the loop: the key, the serial side (`available`, `read_array`
of `SerialStream` with its ring), the socket write, the socket read with the serial
write. `posix`, which never changes, tells the build whose socket read waits from the one that
asks first. The socket write blocks: `SocketTakes` takes as many bytes as the system's
send buffer has room for, and the loop stays at `sending` until the peer reads
(`PeerReads`) or the connection breaks. A connection is open, closed by the peer, which may still
read, or broken: then a write fails, a read fails in the POSIX build and the program ends,
while the Windows build's `read_socket` returns 0 for every error. `write_array` does not
look at its result, so `PortTakes` is how many bytes the port takes: all of them in the POSIX
build, whose write waits for a line without flow control, unless the port has failed
(`PortFails`), and any number in the Windows build, which gives up after 2 ms
(`serial_stream.cpp:37`). What is left out is gone, and `port_lost` counts it. Bytes are
numbered, so that order and loss can be seen.

## What the runs check

| Run | Shows | Instance |
|---|---|---|
| `handler` | types; the awaited request is the oldest; tries add up; no silent drop; cooldown, patience with the peer, timely answers; refinement of `RequestQueue`; the queue drains | 2 messages, one unsendable, one retry, up to 2 frames at once, handlers that send and take a unit, intervals of 0 to 4 units changed while requests are open |
| `ring` | the ring is a bounded queue of bytes | capacity 3, two byte values, chunks of up to 4 |
| `frame_send` | what is written is the frame asked for | real sizes and CRC, up to 255 bytes on the line |
| `frame_send_limit_doc` | violation, see below | data of 233 bytes with 11 and more separators |
| `receive` | types; positions agree; only frames of the line are found, none is missed, none held back, none waits too long; `process_data` ends | bytes of three bits, lines of noise, damage and overflow, buffer of 12, reads of 1, 4 and 12 bytes, resets |
| `receive_timeout_doc` | violation, see below | frames cut short, and time |
| `link` | an answer handler gets the answer to its request on every line that is prompt enough; a request expires only when each of its tries was lost | one side or the other begins, 2 requests and a notice against 1, delay 1, 2 losses, one retry, intervals below and above a round trip |
| `hon_alarms` | types, never two reports; an alarm is reported in time; active alarms are silent only if the peer stopped them; reports end after one that listed none | 3 draws, one of which is refused, any frames of the peer, all intervals in the code's order |
| `hon_control` | types; a handler changes only what an accepted request names, or a byte that a key stored; the pairing set point stays; answers show what was asked; a change is lost only by two changes of one byte at once | 5 fields of 2 bytes and of bytes of their own, values 1 and 300, 2 packets, all requests and keys |
| `smartair2` | what is published agrees with itself; the compressor does not short-cycle; a cooling unit reaches its target, drifts and starts again, for ever; the room jumps only in a hold whose settings changed | temperatures 0 to 8, all modes, rates 1 and 2, iterations of 1 and 3 units of which 2 count |
| `control_file` | a torn read or a failed rename needs two requests at once; until then refinement of `SharedSettings`, and the last settings are applied | 2 threads, 4 requests, a second between text and next request |
| `serial_bridge` | no byte is doubled or overtaken, and only writes lose any; the device is heard and ESC ends the program if the peer goes on | both builds, buffers of 2, 3 bytes each way, one other key; a peer that stops reading, a connection that closes or breaks, a port that fails |

Why the bounds are enough. The handler looks at the front of the queue and at
whether there is one, two or more frames; a message that handlers submit again and
again fills the queue behind the awaited one, and two frames are the case where all but the
last are dropped. Tries are only compared with 0. An iteration takes a unit, and the answer
time is shorter and longer than the retry interval, the cooldown between them or
zero, so that each of the three deadlines can be the last. `Horizon` must exceed every
interval by an iteration (`HorizonAssumption`); beyond it elapsed times are equal for
every property. The ring has as many slots as it takes to wrap with a byte
left on both sides, and chunks longer than it. For the receiver a header has five
bytes and data at most two: the parser tells a header from a body and an escape
from a byte, never one byte of data from another, so what matters is that noise,
false starts (`7 7 x`), wrong escapes in every position, missing bytes and every
cut occur; the lines contain each byte of two frames replaced, removed or last. A read
of 12 bytes overflows the buffer wherever the line is long enough, and the last of the lines
loses separators that were counted. Resets come while at most `LastReset` bytes were
received: before, inside and behind a start. In
this small alphabet checksum and CRC match by accident more often than in reality:
`FramesOn` then counts these as frames, as the parser must.

In `ProtocolLink` what matters is the order of a round trip, an answer timeout and a
cooldown: a round trip of 2 units is as long as one answer timeout and longer than the other,
and longer and shorter than a cooldown. Two requests are what it takes for an answer to go
astray, two losses to lose every try of one. In `HonAlarms` the
intervals are in the order of the code's (300, 400, 1000, 5000 ms), and two alarms
and the number that `start_alarm` refuses are what it takes for one alarm to start while
the other is reported; `Watched` is one of the two. In
`HonControl` a byte with several followed fields, a byte with one and the whole-byte set
point are the cases a load and a store tell apart, and 300 does not fit any field.
`SmartAir2Sim`'s room has space on both sides of every target for a drift, a hysteresis
and an iteration of the longest time; time passes in every iteration, since an iteration of
no time would be one that lasts for ever. The control file needs two threads for a shared
name, three requests for a file that is created under an open one; four are allowed.
The bridge's buffers, the send buffer of the system among them, are smaller than what the
lines bring, so that each refill, part of a buffer, and full buffer occurs.

The type invariants of `CircularBuffer`, `ControlFile` and `SmartAir2Sim` and the
strengthened invariants `IInv` are proved, so that no run repeats them.

`CHECK_DEADLOCK FALSE` stands where a run ends when its line is read, its one call
has returned, its clock and its requests are used up, or the bridge has exited. The
others never stop.

### Fairness

`handler` assumes `WF(loop)` and `WF(Tick)`: the library's contract is that
`loop()` is called frequently (`doc/protocol_reference.rst`, "Minimal integration
pattern"), and clocks run. No fairness is assumed of the peer, of handlers or of the
application; `QueueDrains` excepts the peer that keeps handlers answering, because
each answer moves the cooldown. `receive` assumes weak fairness of
`process_data` and its turns: it is one function in one thread. `SmartAir2Sim` assumes
that `protocol_loop()` goes on (`Iterate`, weakly), and `CoolingCycles` speaks of
behaviours in which settings stop changing; nothing is assumed of keys, peer or console.
`ControlFile` assumes that the simulator polls, and that a thread that began a request
finishes it, not that requests come. `SerialBridge` assumes that the loop runs, and nothing
of the peer: `DeviceIsHeard` and `EscExits` name what they need of it. In both builds it must
make room for a write again and again, or the connection must break (`PeerReadsOn`), because
`write_socket` waits for it; in the POSIX build it must also send or close again and again
(`PeerSpeaks`), because `read_socket` waits too. Without either both fail: a peer that
stops reading, or in the POSIX build one that is silent, holds bytes and ESC up. `ProtocolLink`, `HonAlarms`
and `HonControl` have no liveness: their promises have deadlines, and are safety.

### Disagreements between documents and code

Two runs end in a violation, on purpose:

- `frame_send_limit_doc`: `fill_buffer`'s position is a `uint8_t`
  (`haier_frame.cpp:345`): a frame that needs more than 256 bytes with its escapes
  overwrites its own beginning, and success is reported
  (`doc/protocol_reference.rst:69`). With exactly 256 bytes the frame is written and
  reported as not written. `README.rst` even allows data of 246 bytes.
- `receive_timeout_doc`: the test for the frame timeout can never be true
  (`protocol_transport.cpp:82`), a partial frame is never given up
  (`doc/protocol_reference.rst:121`).

Others were met while modelling. The models have them as the code does, and a
property that passes says what holds instead:

- An answer sent by a handler is written at once, so the "cooldown between sends"
  (`doc/protocol_reference.rst:152`) holds only before queued messages
  (`haier_protocol.cpp:225`): `CooldownRespected`.
- An answer handler is told the request "that caused this answer"
  (`haier_protocol.h:36`), but is called with the next frame, be it the late answer to a
  request that has expired or the peer's own request (`haier_protocol.cpp:140`):
  `AnswersMatchWhenPrompt`.
- A key pressed while a group command is stored takes back other fields of its byte
  (`hon_simulator/main.cpp:101`): `LossNeedsOneByte`, `AnswerShowsRequest`.
- While the target is held, a change of the target moves the room with it at once
  (`smartair2_sim_control.cpp:387`): `RoomMovesGradually` excepts exactly this (`MovedAtOnce`).
- Two requests in one second have one time, so the second is never read
  (`smartair2_sim_control.cpp:265`): `FollowsFile` excludes this case (`MinGap`).
- The key 'a' logs that an alarm was triggered, also when it drew the number that
  `start_alarm` refuses (`hon_simulator/main.cpp:68`); `sizeof(ALARM_BUF_SIZE)` is the
  size of a `size_t` (`hon_server.cpp:138`), so that with four bytes half of the alarms stay
  set; and the ranges of three single parameters are tested on the parameter's number, so
  a value that no enum has is stored (`hon_server.cpp:391`). No property is about these.

## What the model taught

- Nothing in the protocol ties an answer to its request. `AnswersMatchWhenPrompt` is
  what holds: only one side asks, and a round trip fits into the answer timeout or
  is shorter than the cooldown, which keeps the next request back until the late answer
  has come. The library's defaults (200 and 400 ms) rely on the second.
- An alarm started while a report is open may wait the long interval, because the
  confirmation of the older report pauses it too; and a report may stand in the queue
  through two cooldowns, or a cooldown and an answer timeout, before the next can be
  queued. `LongestWait` is the longest of the three, and attained.
- Alarms reset while a report is open end without a report that says so
  (`raced` in `StopFollowsEmptyReport`).
- The bridge waits for its peer: with a blocking socket, a peer that stops reading holds
  up the keys as well, in both builds. Towards the device it loses bytes without a word
  where the port does not take them (`serial_stream.cpp:138`).
- A command that is refused changes nothing by itself; what an accepted one changes beyond
  its own fields lies in a byte that a key stored meanwhile (`NothingElseChanges`).
- A power command of the protocol thread and a key meet in one byte: lost updates
  need two changes of the *same byte*, never of neighbours (`LossNeedsOneByte`).
- Frames behind one that was cut short are delayed, since the timeout is dead, but
  not lost: at most `LongestBody` further bytes bring them out, the separators of
  escapes not counted (`FoundInTime`).
- After an overflow that hits counted separators but no started frame, `pos_` is
  stale, and later bytes are taken for separators; `parse_buffer`'s own look at them
  is what keeps false frames out (mutant `StartsRightAlways`).
- A frame whose escaped body is longer than the ring (251 bytes by default) can
  never be received.
- A request whose every write failed leaves the queue without any handler call;
  that is the only way a message can vanish (`DropsOnlyUnsendable`).
- Removing the entry in `haier_protocol.cpp:93` is followed by a write through the
  reference to the popped entry (line 103). It has no effect that the model could
  show; memory is not modelled.

## What is proved

Checked by TLAPS for all values of the constants that satisfy the named
assumptions of the modules (`...Assumption`).

`ProtocolHandlerProofs`: `IInv` is an invariant (`Invariant`), and with it `TypeOK`,
`AwaitsTheOldest` and `TriesAddUp`; the action properties `DropsOnlyUnsendable`,
`CooldownRespected`, `PatientWithPeer` and `AnswersInTime` follow step by step. None
of them is inductive. `IInv` adds `TriesFitState` (a request is awaited only after a
try; between tries its answer time is over; a message without tries left, outside
WAITING_FOR_ANSWER, is one whose writes failed) and `DeadlinesCover` (time passed
plus time left covers the interval the deadline was set from), which is the link
between the code's deadlines and the elapsed times the properties speak of. The
proof has a lemma for each way through `loop()` (`RestKeeps`, `TransmitKeeps`,
`RefuseKeeps`, `DiscardKeeps`, `RetryKeeps`, `FinishKeeps`), over lemmas about the
queue (`PushKeepsAccounts`, `PopRestartsAccounts`, `TryMovesOne`) and about time
(`CooldownAges`, `TryAges`). The same module proves that every step of `Spec` is a step of
`RequestQueue` (`HandlerImplementsQueue`), so a message leaves the queue once, in order,
after at most its tries. `View` maps the queue and the awaited front; the mapped
invariant is `IInv`, since only `AwaitsTheOldest` tells that a timeout or an answer takes
the entry that was sent. One lemma per way through `loop()` names the abstract action
it is. Last, `OldestAdvances` is the step that `QueueDrains` rests on: as long as the oldest
message stays in the queue and no handler answers, it never gets further from its end,
counted in stages (each write, and each wait after one: `StagesLeft`) and then in time
(`TimeLeft`); time shortens what is left of it, and once nothing is left every call of
`loop()` completes a stage.

`TransportProofs`, the receiver, all of `SpecWithResets`, for any bytes, reads, capacity,
overflow and reset. `IInv` (`ReceiverInvariant`) gives `PositionsAgree`: no position,
count or difference of them leaves the buffer or wraps. It needs two more facts: bytes wait to be
dropped only while the loop looks for a frame (else `ScanEnd` would take them off a
position that no longer counts them), and separators are counted only inside a
frame. `LineInv` (`ParserKnowsTheLine`) says what the parser knows of the line: `buffer_`
is the stretch of it that ends with the last byte received; `sep_count_` are the escapes of the
part being read, `current_frame_` is the header that stands on the line just before it; and every
frame on the line was found, begins in bytes that an overflow or a reset threw away, is the
one being read or begins behind the bytes given up. From it follow `TypeOK`, `FoundOnTheLine`
(`OnlyFramesFound`), `NothingMissed` (`NoFrameMissed`), `NothingHeldBack`
(`NoByteHeldBack`) and `FoundInTime` (`FramesFoundInTime`). What the proofs count
(escapes in front of a byte, bytes of a body) is counted with `Cardinality` over sets of
positions: `Omit` of the module `Omission` replaces a filter over sequences, whose
value the provers cannot compute; `Stuffed` says by place, too, where a byte and the post
bytes land.

`LoopComesToAnEnd` is the step that `LoopEnds` rests on: each turn of `process_data`'s loop
ends the call or leaves less of a natural number, `TurnsLeft`. A byte that is dropped counts
most, a header that was read is next, and bytes not yet looked at count least, since a
frame that is refused sends the parser back over them.

`TransportProofs`, the sender, from the assumption that a frame is a type, bytes and a CRC
flag, and that its CRC is two bytes: `UnstuffedStuffed` (escapes are taken out as they
were put in, none is wrong), `HeaderOfFrame` and `TrailerOfFrame` (header, checksum and
CRC of the two sides agree), from them `PayloadIsFrame` (what is written is read back),
and `ImageIsWritten`: up to `SizeBase` bytes, `fill_buffer`'s wrapping position writes
`Image`, over whatever the buffer held. `SenderInv` is inductive with it and gives
`SuccessIsAFrame` for every frame whose buffer a `uint8_t` counts
(`SuccessMeansTheFrame`); the run `frame_send_limit_doc` shows why not for others.
`ShortDataIsSent` says without looking at the bytes which data always fit: up to 119
bytes, with the code's sizes. By `WrittenFrameIsOnLine` what was written is among the
frames on the line that the receiver's theorems speak of; with `NoFrameMissed`, the
receiver finds it, unless an overflow, a timeout or a reset throws it away.

`CircularBufferProofs`: `Sound` (positions inside the array; with `is_empty_`, the two
positions are equal) is inductive for every capacity. `TypeOK` and
`EmptyMeansCaughtUp` follow. For `IsByteQueue` the contents are read slot by slot: `Added`
and `Dropped` say what a run written at `tail_`, in one or two pieces, and a run
dropped at `head_` do to `Contents`, with the overflow as a drop before the add.

`HonAlarmsProofs`: `IInv` has the types and four facts. `OneReport`: the handler's
queue is empty or one report, because `process_alarms` looks at the queue first.
`OpenReportHolds`: unless alarms were reset since, an open report lists no alarm only
if none is active. `SilencedOnlyByPeer`, and that silence which the peer
asked for is still in force. From it follow `TypeOK`, `SilencedOnlyByPeer` and
`StopFollowsEmptyReport`. The protocol thread's `Loop` rests on
`IterationKeepsReport`: an iteration of the handler keeps the report or removes it, and
answers only a report that was open. `ReportedInTime` (`AlarmsReportedInTime`) needs
`TimeInv` besides: the watched alarm is active while `wait` runs, the handler's deadlines
are within their intervals, a report has one try, and, in `OnTime`, how far `wait` has
come at each of the six places a report can be in (no report yet, queued, then behind an
older one that is unwritten, awaited or gone, and queued late), against what is left of the
cooldown and of the answer time there.

`HonControlProofs`: `IInv` (`ControlInvariant`) says that a byte a thread has loaded is
the one its change goes to and differs from the packet only in fields that the other thread
has stored since (`Copies`), that no key touches the set point (`KeysAside`), that the
set point offered for pairing is set or waits to be (`Offered`), and that what an accepted
request asked for waits, is shown, or lies in a byte that a key stored (`Answering`). For
`NothingElseChanges` it has, besides, that only fields which an accepted request names wait to be
changed (`OnlyNamed`), and that what became stale after the handler loaded its byte is in
a byte that a key stored (`StaleByKey`): a store can change nothing else. What each branch
of the handlers comes to is in `SingleOutcome`, `HandlerOutcome` and `TakenIsChanges`. `TypeOK`,
`NothingElseChanges`, `PairingOffered`, `AnswerShowsRequest` and `LossNeedsOneByte` follow
for any followed fields, values and packets.

`ProtocolLinkProofs`: `LinkInv` (`LinkInvariant`), for any delay, intervals, tries,
messages and losses, and for either side that asks. It is stated of a *view*, a record of what one
side keeps and of the two lines, so that each lemma is proved once and serves both. The side
that answers keeps nothing (`Answers`). Of the side that asks, all that is under way belongs to
the message written last, and its age is told by what passed of the cooldown, when that is
longer than a round trip (`CoolTrip`), or of the answer time, when that is at least one (`PromptTrip`):
so it has arrived before the next message can be written, or before the request is given
up. From it follows `AnswersMatchWhenPrompt` (`AnswersMatchRequests`). Tries made and left
add up on this level too (`Accounted`), and each try but one under way was lost (`TriesLost`), which
gives `ExpiresOnlyByLoss` (`ExpiresByLossOnly`).

`SmartAir2Proofs`, the room: for any integers, rates, files and commands, `TypeOK`,
`StatusAgrees`, `NoShortCycle` and `RoomMovesGradually`. The invariant (`RoomInvariant`) needs which
phases the compressor may run in at each block (`RunsInPhase`), and where the room stands while
nothing changed since the target was reached (`SteadyWaits`). For the last property `MoveInv`
(`MoveInvariant`) adds on which side of the target the room is in each phase while no setting
changes (`SteadySide`), and that a drift has no hold left (`NoHoldInDrift`), else `simulate()` would
hold a drifting room at its target.

`SmartAir2Proofs`, the control file: `FileInv` is inductive. `Shapes` says that threads, files and
names fit together, `Alone` that without overlap at most one thread is between its steps
and the file it writes is not the control file. `FilesFitTogether` and `TroubleNeedsOverlap`
follow for any number of threads, and so does the refinement of `SharedSettings` up to the
first overlap (`FileImplements`). `NothingOverlooked` is the step that `FollowsFile` rests on:
without overlap and with a second between requests, what the control file says was applied,
is being read, or has a time that `load_control` will find changed. Its invariant `Newest` orders
the times: that which was read last, that of the control file, that of the file being written.

`SerialBridgeProofs`: `LostOnlyByWrites` for buffers of any size, in both builds. It is
inductive only with `BufferIsFree`: outside the socket write, also one that waits, the buffer
of the main loop is empty, so that `read_array` overwrites nothing.

Only model-checked: liveness, since the prover has no rule for fairness and `ENABLED`:
`QueueDrains`, `LoopEnds`, `CoolingCycles`, `DeviceIsHeard`, `EscExits`, `FollowsFile`. Of
three of them the part that is a matter of steps is proved (`OldestAdvances`,
`LoopComesToAnEnd`, `NothingOverlooked`): what the runs add is that the steps are taken. Induction over data is out of the
provers' reach in general; where a proof needs a first or a last position, it takes the least
element of a set of naturals.

## Not modelled

Memory (ownership, copies, the dangling reference above), logging, the choice of a
handler from the maps, the CRC mode a message is sent with, the program that
embeds the library beyond its calls. `HaierMessage`, the frame types and the stream
interface have no state of their own: `FrameCodec` and the handler contain what is
left of them. The copy constructor and `operator=` of `CircularBuffer` are called by
nothing. Of the tools: fixed answers and sensor bytes of both servers, the status
file and the event log (layout), the console's pages, opening and setting up ports and
sockets (calls that work or end the program), leaving the simulators. Tests and examples are read for what
they expect, and not modelled.

## Plan

Done, the most important first: `ProtocolHandler` with
`RequestQueue`; `CircularBuffer` with `ByteQueue`; `FrameCodec`, `TransportSender`,
`TransportReceiver`; `ProtocolLink`; `HonAlarms`, `HonControl`; `SmartAir2Sim`,
`SharedSettings`, `ControlFile`; `SerialBridge`; proofs about all but the abstract ones.

Left:

1. The refinement that replaces the receiver's sequence of bytes by the ring.
2. Bytes of a SmartAir2 group command other than power, mode and target.

## Running

`tlc -config <run>.cfg <module>` for a run of the table (`PROJECT.json` names the
module), `tlapm <module>.tla` for the eight proof modules.
