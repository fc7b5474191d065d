------------------------------ MODULE HonAlarms ------------------------------
(***************************************************************************)
(* The alarm reports of the hOn simulator: tools/utils/hon_server.cpp over *)
(* a ProtocolHandler, driven by preloop() and the keys of                  *)
(* tools/hon_simulator/main.cpp.                                           *)
(*                                                                         *)
(* The protocol thread runs preloop() and then loop(), every 3 ms; one     *)
(* action stands for each block of preloop() and one for loop().  The main *)
(* thread sets the flags of the keys 'a' and 's' at any time.  The peer    *)
(* sends any frames at any time.                                           *)
(*                                                                         *)
(* A report is a message whose content is the set of alarms it lists.      *)
(***************************************************************************)
EXTENDS Integers, Sequences, SequencesExt

CONSTANTS
  HON_ALARM_COUNT,  \* 51 in the code
  ALARM_BUF_SIZE,   \* 8 in the code
  SizeOfSizeT,      \* sizeof(size_t) of the build: 8 or 4
  Draw,             \* values of std::rand() % HON_ALARM_COUNT
  Watched,          \* the alarm the properties follow
  ShortInterval,    \* SHORT_ALARM_REPORT_INTERVAL_MS
  LongInterval,     \* LONG_ALARM_REPORT_INTERVAL_MS
  AnswerTimeout,    \* what simulator_main gives to set_answer_timeout
  Cooldown,         \* DEFAULT_COOLDOWN_INTERVAL
  MaxBurst,         \* bound: frames that arrive in one iteration
  NoMessage,
  Horizon           \* bound: elapsed times are counted up to here

ASSUME AlarmsAssumption ==
  /\ HON_ALARM_COUNT \in Nat \ {0}
  /\ HON_ALARM_COUNT <= 8 * ALARM_BUF_SIZE
  /\ Draw \subseteq 0 .. HON_ALARM_COUNT - 1
  /\ Watched \in 0 .. HON_ALARM_COUNT - 1
ASSUME IntervalsAssumption ==
  /\ {ShortInterval, LongInterval, AnswerTimeout, Cooldown, Horizon} \subseteq Nat
  /\ ShortInterval < LongInterval
  /\ \A i \in {LongInterval, AnswerTimeout, Cooldown} : i + 1 < Horizon

Alarm == 0 .. HON_ALARM_COUNT - 1

\* The frames that matter here, well-formed (size 0) or not.
Frame == [type: {"CONFIRM", "STOP_FAULT_ALARM", "GET_ALARM_STATUS"}, size: {0, 1}]

VARIABLES           \* of hon_server.cpp and main.cpp
  alarm_status_buf, \* the alarms whose bit is set
  alarm_paused,
  alarm_stopped,
  since_report,     \* now - last_alarm_message
  _trigger_random_alarm,
  _reset_alarm

VARIABLES           \* of ProtocolHandler
  state_, outgoing_messages_, incoming_queue_, last_message_type_,
  answer_timeout_interval_, cooldown_interval_, cooldown_left, answer_left,
  retry_left, calls, tried, since_write, since_try, gap, window

VARIABLES
  pc,               \* the block of the protocol thread that comes next
  due,              \* loop() has not run since the clock moved
  \* history, read by no action
  wait,             \* how long Watched waits to be reported; -1: it does not
  hurried,          \* no report was open when Watched was started
  silenced,         \* the peer stopped the alarms and none was started since
  raced             \* alarms were reset while a report was open

alarms == <<alarm_status_buf, alarm_paused, alarm_stopped, since_report>>
flags == <<_trigger_random_alarm, _reset_alarm>>
handler == <<state_, outgoing_messages_, incoming_queue_, last_message_type_,
             answer_timeout_interval_, cooldown_interval_, cooldown_left,
             answer_left, retry_left, calls, tried, since_write, since_try, gap,
             window>>
history == <<wait, hurried, silenced, raced>>
vars == <<alarms, flags, handler, pc, due, history>>

H == INSTANCE ProtocolHandler WITH
       Message <- SUBSET Alarm, Unsendable <- {},
       MAX_PACKET_RETRIES <- 9, Repeats <- {0}, RetryIntervals <- {0},
       AnswerTimeouts <- {AnswerTimeout}, CooldownIntervals <- {Cooldown},
       HandlerTime <- 0, WriteTime <- 0, MaxIncoming <- MaxBurst

ReportOpen == outgoing_messages_ # <<>>

-----------------------------------------------------------------------------
(* preloop()                                                               *)

Block(name, next) == pc = name /\ pc' = next

\* Mutants: a new alarm does not end the pause; it does not end the silence.
start_alarm_still_paused(alarm_id) ==
  IF alarm_id >= HON_ALARM_COUNT
    THEN UNCHANGED <<alarm_status_buf, alarm_paused, alarm_stopped>>
    ELSE /\ alarm_stopped' = FALSE
         /\ alarm_status_buf' = alarm_status_buf \cup {alarm_id}
         /\ UNCHANGED alarm_paused

start_alarm_still_stopped(alarm_id) ==
  IF alarm_id >= HON_ALARM_COUNT
    THEN UNCHANGED <<alarm_status_buf, alarm_paused, alarm_stopped>>
    ELSE /\ alarm_paused' = FALSE
         /\ alarm_status_buf' = alarm_status_buf \cup {alarm_id}
         /\ UNCHANGED alarm_stopped

start_alarm(alarm_id) ==
  IF alarm_id >= HON_ALARM_COUNT
    THEN UNCHANGED <<alarm_status_buf, alarm_paused, alarm_stopped>>
    ELSE /\ alarm_paused' = FALSE
         /\ alarm_stopped' = FALSE
         /\ alarm_status_buf' = alarm_status_buf \cup {alarm_id}

Trigger ==
  /\ Block("trigger", "reset")
  /\ IF _trigger_random_alarm
       THEN \E d \in Draw :
              LET r == HON_ALARM_COUNT - d
              IN  /\ start_alarm(r)
                  /\ wait' = IF r = Watched /\ wait = -1 THEN 0 ELSE wait
                  /\ hurried' = IF r = Watched /\ wait = -1 THEN ~ReportOpen ELSE hurried
                  /\ silenced' = (silenced /\ r \notin Alarm)
       ELSE UNCHANGED <<alarm_status_buf, alarm_paused, alarm_stopped, wait,
                        hurried, silenced>>
  /\ _trigger_random_alarm' = FALSE
  /\ UNCHANGED <<since_report, _reset_alarm, handler, due, raced>>

\* The byte of alarm_status_buf that holds an alarm.
ByteOf(alarm_id) == ALARM_BUF_SIZE - 1 - alarm_id \div 8

\* memset clears sizeof(ALARM_BUF_SIZE) bytes, and ALARM_BUF_SIZE is a size_t.
reset_alarms ==
  /\ alarm_status_buf' = {a \in alarm_status_buf : ByteOf(a) >= SizeOfSizeT}
  /\ alarm_paused' = FALSE

Reset ==
  /\ Block("reset", "report")
  /\ IF _reset_alarm
       THEN /\ reset_alarms
            /\ raced' = (raced \/ ReportOpen)
            /\ wait' = IF Watched \in alarm_status_buf' THEN wait ELSE -1
       ELSE UNCHANGED <<alarm_status_buf, alarm_paused, raced, wait>>
  /\ _reset_alarm' = FALSE
  /\ UNCHANGED <<alarm_stopped, since_report, _trigger_random_alarm, handler,
                 due, hurried, silenced>>

\* Mutant: a report is queued although one is open.
MayReportAgain ==
  ~alarm_stopped
    /\ since_report > IF alarm_paused THEN LongInterval ELSE ShortInterval

MayReport ==
  /\ ~alarm_stopped
  /\ state_ # "WAITING_FOR_ANSWER"
  /\ outgoing_messages_ = <<>>
  /\ since_report > IF alarm_paused THEN LongInterval ELSE ShortInterval

process_alarms ==
  /\ Block("report", "loop")
  /\ IF MayReport
       THEN /\ H!send_message(alarm_status_buf, 0, 0)
            /\ alarm_paused' = FALSE
            /\ since_report' = 0
            /\ raced' = FALSE
       ELSE UNCHANGED <<handler, alarm_paused, since_report, raced>>
  /\ UNCHANGED <<alarm_status_buf, alarm_stopped, flags, due, wait, hurried, silenced>>

-----------------------------------------------------------------------------
(* loop() and the handlers it runs                                         *)

\* The message handlers of the simulator answer every frame they know, be it
\* with INVALID; default_message_handler answers nothing.
Answered(f) == f.type # "CONFIRM"

HandlerRun(frames) ==
  [pushed |-> <<>>, took |-> 0,
   answered |-> state_ = "IDLE" /\ frames # <<>> /\ Answered(Last(frames))]

stop_alarm_handler(f) ==
  /\ alarm_stopped' = (alarm_stopped \/ f.size = 0)
  /\ silenced' = (silenced \/ f.size = 0)
  /\ UNCHANGED alarm_paused

\* Mutant: every confirmation stops the reports.
ConfirmStops(f) ==
  /\ alarm_stopped' = (alarm_stopped \/ (f.type = "CONFIRM" /\ f.size = 0))
  /\ UNCHANGED <<alarm_paused, silenced>>

\* Only an empty CONFIRM counts; any other frame was an answer all the same.
alarm_status_report_answer_handler(f) ==
  /\ IF f.type = "CONFIRM" /\ f.size = 0
       THEN IF alarm_status_buf = {}
              THEN alarm_stopped' = TRUE /\ UNCHANGED alarm_paused
              ELSE alarm_paused' = TRUE /\ UNCHANGED alarm_stopped
       ELSE UNCHANGED <<alarm_paused, alarm_stopped>>
  /\ UNCHANGED silenced

Dispatch(frames) ==
  IF frames # <<>> /\ state_ = "IDLE" /\ Last(frames).type = "STOP_FAULT_ALARM"
    THEN stop_alarm_handler(Last(frames))
  ELSE IF \E c \in calls' : c.op = "answered"
    THEN alarm_status_report_answer_handler(Head(frames))
  ELSE UNCHANGED <<alarm_paused, alarm_stopped, silenced>>

\* Watched is reported, silenced, or its wait starts anew: each answer restarts
\* the cooldown of the handler.
WaitAfterLoop ==
  IF \/ \E c \in calls' : c.op = "request" /\ Watched \in c.msg
     \/ silenced'
    THEN -1
  ELSE IF wait >= 0 /\ H!Answering \in calls' THEN 0 ELSE wait

Bursts == UNION {[1..n -> Frame] : n \in 0..MaxBurst}

Loop ==
  /\ Block("loop", "trigger")
  /\ \E arrived \in Bursts :
       LET frames == incoming_queue_ \o arrived
       IN  /\ Len(frames) <= MaxBurst
           /\ H!Iteration(arrived, HandlerRun(frames))
           /\ Dispatch(frames)
  /\ wait' = WaitAfterLoop
  /\ due' = FALSE
  /\ UNCHANGED <<alarm_status_buf, since_report, flags, hurried, raced>>

-----------------------------------------------------------------------------
(* The keys, the clock                                                     *)

PressA == _trigger_random_alarm' = TRUE /\ UNCHANGED _reset_alarm
PressS == _reset_alarm' = TRUE /\ UNCHANGED _trigger_random_alarm

Key ==
  /\ PressA \/ PressS
  /\ UNCHANGED <<alarms, handler, pc, due, history>>

\* protocol_loop() runs every 3 ms, so at least once in a unit of time.
Tick ==
  /\ pc = "trigger" /\ ~due
  /\ due' = TRUE
  /\ H!Tick
  /\ since_report' = IF since_report > LongInterval THEN since_report
                     ELSE since_report + 1
  /\ wait' = IF wait = -1 THEN -1 ELSE H!Elapsed(wait, 1)
  /\ UNCHANGED <<alarm_status_buf, alarm_paused, alarm_stopped, flags, pc,
                 hurried, silenced, raced>>

\* init_ac_state: no alarm, reports stopped.
Init ==
  /\ alarm_status_buf = {}
  /\ alarm_paused = FALSE
  /\ alarm_stopped = TRUE
  /\ since_report = 0
  /\ _trigger_random_alarm = FALSE
  /\ _reset_alarm = FALSE
  /\ H!Init
  /\ pc = "trigger"
  /\ due = TRUE
  /\ wait = -1
  /\ hurried = FALSE
  /\ silenced = FALSE
  /\ raced = FALSE

Next == Trigger \/ Reset \/ process_alarms \/ Loop \/ Key \/ Tick

Spec == Init /\ [][Next]_vars

-----------------------------------------------------------------------------
(* Properties                                                              *)

\* The state has its types, and process_alarms never has two reports open.
TypeOK ==
  /\ alarm_status_buf \subseteq Alarm
  /\ {alarm_paused, alarm_stopped, _trigger_random_alarm, _reset_alarm} \subseteq BOOLEAN
  /\ since_report \in 0 .. LongInterval + 1
  /\ outgoing_messages_ \in {<<>>} \cup [1..1 -> H!OutgoingQueueItem]
  /\ wait \in -1 .. Horizon

LaterOf(a, b) == IF a > b THEN a ELSE b

\* How long an alarm waits that was started while an older report was open: that
\* report is written after the cooldown and is open until its answer time is over,
\* which a later iteration sees; then the next report, queued in the iteration after
\* that, waits for the cooldown that the older one started.  If the peer confirms the
\* older one, the new alarm is paused with the others, for the long interval.
LongestWait ==
  LaterOf(LongInterval + 1, Cooldown + LaterOf(AnswerTimeout + 2, Cooldown))

\* An alarm is on the line soon after it was started, unless the peer keeps
\* asking (each answer restarts the cooldown) or stops the alarms: within the
\* short interval or the cooldown if no report was open when it was started,
\* otherwise within LongestWait.
ReportedInTime ==
  wait <= IF hurried THEN LaterOf(ShortInterval + 1, Cooldown) ELSE LongestWait

\* Active alarms are silent only because the peer stopped them and none was
\* started since: neither confirmations nor resets nor timeouts silence them.
SilencedOnlyByPeer == alarm_stopped /\ alarm_status_buf # {} => silenced

\* A confirmation ends the reports only if the report it confirms listed no
\* alarm, so the peer knows that all are over; or the alarms were reset between
\* that report and its confirmation, and then the peer is never told.
StopFollowsEmptyReport ==
  [][pc = "loop" /\ alarm_stopped' /\ ~alarm_stopped /\ silenced' = silenced =>
       Head(outgoing_messages_).msg = {} \/ raced]_vars
=============================================================================
