----------------------------- MODULE ProtocolLink -----------------------------
(***************************************************************************)
(* Two ProtocolHandlers joined by a serial line, as test/hon_test joins a  *)
(* client and a server: the module (a controller) and the device (an air   *)
(* conditioner or a simulator).  Each runs its own loop(); each writes     *)
(* frames on the line to the other, which keeps their order, takes up to   *)
(* Delay units of time to deliver one and may lose one.                    *)
(*                                                                         *)
(* A handler has no way to tell whether a frame answers its request: the   *)
(* question asked here is when the answer handler of a request is given    *)
(* the answer to that request, and when a request is given up.             *)
(*                                                                         *)
(* Both sides answer a request from their message handler, at once; other  *)
(* frames they do not answer.                                              *)
(***************************************************************************)
EXTENDS Integers, Sequences, SequencesExt, FiniteSets

CONSTANTS
  ModuleRequest,      \* what the module asks
  ModuleNotice,       \* what it sends without asking for an answer
  DeviceRequest,      \* what the device asks
  Speakers,           \* which sides' applications send, sets of sides
  NoMessage,
  MAX_PACKET_RETRIES, \* 9 in the code
  Repeats,            \* values of num_repeats
  AnswerTimeouts,     \* values of the answer timeout, the same on both sides
  CooldownIntervals,  \* values of the cooldown, the same on both sides
  Delay,              \* the longest a frame is on the line
  MaxLosses,          \* bound: frames lost while a request is open
  Horizon             \* bound: see ProtocolHandler

ASSUME LinkAssumption ==
  /\ {Delay, MaxLosses, MAX_PACKET_RETRIES} \subseteq Nat
  /\ Repeats \subseteq Nat /\ AnswerTimeouts \subseteq Nat /\ CooldownIntervals \subseteq Nat
  /\ Speakers \subseteq SUBSET {"module", "device"}
  /\ ModuleRequest \cap ModuleNotice = {}

Frame ==
  [kind: {"request", "answer"}, of: ModuleRequest \cup DeviceRequest]
    \cup [kind: {"notify"}, of: ModuleNotice]

VARIABLES
  m_state, m_queue, m_incoming, m_last, m_timeout, m_cooldown, m_cooldown_left,
  m_answer_left, m_retry_left, m_calls, m_tried, m_since_write, m_since_try,
  m_gap, m_window

VARIABLES
  d_state, d_queue, d_incoming, d_last, d_timeout, d_cooldown, d_cooldown_left,
  d_answer_left, d_retry_left, d_calls, d_tried, d_since_write, d_since_try,
  d_gap, d_window

VARIABLES
  to_module, to_device, \* the line: sequences of [frame, age]
  due,                  \* sides whose loop() has not run since the clock moved
  heard,                \* history: the last answer handler run of each side
  losses,               \* history: frames lost since a request was first written
  speakers              \* the sides whose application sends anything

module == <<m_state, m_queue, m_incoming, m_last, m_timeout, m_cooldown,
            m_cooldown_left, m_answer_left, m_retry_left, m_calls, m_tried,
            m_since_write, m_since_try, m_gap, m_window>>
device == <<d_state, d_queue, d_incoming, d_last, d_timeout, d_cooldown,
            d_cooldown_left, d_answer_left, d_retry_left, d_calls, d_tried,
            d_since_write, d_since_try, d_gap, d_window>>
line == <<to_module, to_device>>
vars == <<module, device, line, due, heard, losses, speakers>>

M == INSTANCE ProtocolHandler WITH
       Message <- ModuleRequest \cup ModuleNotice, Unsendable <- {},
       RetryIntervals <- {0}, HandlerTime <- 0, WriteTime <- 0,
       MaxBurst <- 0, MaxIncoming <- 0,
       state_ <- m_state, outgoing_messages_ <- m_queue,
       incoming_queue_ <- m_incoming, last_message_type_ <- m_last,
       answer_timeout_interval_ <- m_timeout, cooldown_interval_ <- m_cooldown,
       cooldown_left <- m_cooldown_left, answer_left <- m_answer_left,
       retry_left <- m_retry_left, calls <- m_calls, tried <- m_tried,
       since_write <- m_since_write, since_try <- m_since_try,
       gap <- m_gap, window <- m_window

D == INSTANCE ProtocolHandler WITH
       Message <- DeviceRequest, Unsendable <- {},
       RetryIntervals <- {0}, HandlerTime <- 0, WriteTime <- 0,
       MaxBurst <- 0, MaxIncoming <- 0,
       state_ <- d_state, outgoing_messages_ <- d_queue,
       incoming_queue_ <- d_incoming, last_message_type_ <- d_last,
       answer_timeout_interval_ <- d_timeout, cooldown_interval_ <- d_cooldown,
       cooldown_left <- d_cooldown_left, answer_left <- d_answer_left,
       retry_left <- d_retry_left, calls <- d_calls, tried <- d_tried,
       since_write <- d_since_write, since_try <- d_since_try,
       gap <- d_gap, window <- d_window

-----------------------------------------------------------------------------
(* One call of loop() of a side                                            *)

On(line_, frames) ==
  line_ \o [i \in DOMAIN frames |-> [frame |-> frames[i], age |-> 0]]

\* The first n frames of a line, read in one iteration.
FirstOf(line_, n) == [i \in 1..n |-> line_[i].frame]
AfterFirst(line_, n) == SubSeq(line_, n + 1, Len(line_))

\* Mutant: the frame that is handled is the oldest, the later ones are dropped.
FirstHandled(frames) == Head(frames)

\* Of several frames found in IDLE the last is handled.
Handled(frames) == Last(frames)

\* The message handler answers requests.
HandlerRun(state, frames) ==
  [pushed |-> <<>>, took |-> 0,
   answered |-> state = "IDLE" /\ frames # <<>> /\ Handled(frames).kind = "request"]

\* What the iteration wrote: the handler's answer before the queued message.
Written(calls, frames) ==
  (IF M!Answering \in calls
     THEN <<[kind |-> "answer", of |-> Handled(frames).of]>> ELSE <<>>)
  \o SetToSeq({[kind |-> c.op, of |-> c.msg] :
                 c \in {d \in calls : d.op \in {"request", "notify"}}})

\* The request whose answer handler ran, and the frame it was given.
Heard(side, calls, frames) ==
  IF \E c \in calls : c.op = "answered"
    THEN heard' = [heard EXCEPT ![side] =
           <<(CHOOSE c \in calls : c.op = "answered").msg, Head(frames)>>]
    ELSE UNCHANGED heard

ModuleLoop ==
  \E n \in 0 .. Len(to_module) :
    LET arrived == FirstOf(to_module, n)
        frames == m_incoming \o arrived
    IN  /\ M!Iteration(arrived, HandlerRun(m_state, frames))
        /\ to_module' = AfterFirst(to_module, n)
        /\ to_device' = On(to_device, Written(m_calls', frames))
        /\ Heard("module", m_calls', frames)
        /\ losses' = IF m_tried' = 0 THEN 0 ELSE losses
        /\ due' = due \ {"module"}
        /\ UNCHANGED <<device, speakers>>

DeviceLoop ==
  \E n \in 0 .. Len(to_device) :
    LET arrived == FirstOf(to_device, n)
        frames == d_incoming \o arrived
    IN  /\ D!Iteration(arrived, HandlerRun(d_state, frames))
        /\ to_device' = AfterFirst(to_device, n)
        /\ to_module' = On(to_module, Written(d_calls', frames))
        /\ Heard("device", d_calls', frames)
        /\ due' = due \ {"device"}
        /\ UNCHANGED <<module, losses, speakers>>

-----------------------------------------------------------------------------
(* The applications, the line and the clock                                *)

ModuleSends ==
  /\ "module" \in speakers
  /\ \/ \E m \in ModuleRequest, k \in Repeats : M!send_message(m, k, 0)
     \/ \E m \in ModuleNotice : M!send_message_without_answer(m)
  /\ UNCHANGED <<device, line, due, heard, losses, speakers>>

DeviceSends ==
  /\ "device" \in speakers
  /\ \E m \in DeviceRequest, k \in Repeats : D!send_message(m, k, 0)
  /\ UNCHANGED <<module, line, due, heard, losses, speakers>>

\* A frame is damaged: its receiver will not find it.
Lose ==
  /\ losses < MaxLosses
  /\ \/ \E i \in DOMAIN to_module : to_module' = RemoveAt(to_module, i) /\ UNCHANGED to_device
     \/ \E i \in DOMAIN to_device : to_device' = RemoveAt(to_device, i) /\ UNCHANGED to_module
  /\ losses' = losses + 1
  /\ UNCHANGED <<module, device, due, heard, speakers>>

Older(line_) == [i \in DOMAIN line_ |-> [line_[i] EXCEPT !.age = @ + 1]]

\* Both sides call loop() every few milliseconds, so at least once in a unit of
\* time, and no frame is longer on the line than Delay.
Tick ==
  /\ due = {}
  /\ \A i \in DOMAIN to_module : to_module[i].age < Delay
  /\ \A i \in DOMAIN to_device : to_device[i].age < Delay
  /\ M!Tick /\ D!Tick
  /\ to_module' = Older(to_module) /\ to_device' = Older(to_device)
  /\ due' = {"module", "device"}
  /\ UNCHANGED <<heard, losses, speakers>>

Init ==
  /\ M!Init /\ D!Init
  /\ d_timeout = m_timeout /\ d_cooldown = m_cooldown
  /\ to_module = <<>> /\ to_device = <<>>
  /\ due = {"module", "device"}
  /\ heard = [s \in {"module", "device"} |-> <<>>]
  /\ losses = 0
  /\ speakers \in Speakers

Next == ModuleLoop \/ DeviceLoop \/ ModuleSends \/ DeviceSends \/ Lose \/ Tick

Spec == Init /\ [][Next]_vars

-----------------------------------------------------------------------------
(* Properties                                                              *)

\* Only one side sends anything but answers, and a round trip fits into the time between two
\* requests, which the longer one of the answer timeout and the cooldown gives.
OneSideBegins == Cardinality(speakers) <= 1
RoundTripFits == 2 * Delay <= m_timeout \/ 2 * Delay < m_cooldown

\* Then the frame that an answer handler is given is the answer to the request
\* it is told of ("Request message type that caused this answer",
\* haier_protocol.h:36): a late answer finds its handler in IDLE, whatever was
\* lost, repeated or given up before.  Nothing else ties the two together.
AnswersMatch ==
  \A s \in DOMAIN heard :
    heard[s] # <<>> => heard[s][2] = [kind |-> "answer", of |-> heard[s][1]]

AnswersMatchWhenPrompt == OneSideBegins /\ RoundTripFits => AnswersMatch

\* On a line on which a round trip fits into the answer timeout, a request of
\* the module expires only when each of its tries, or its answer, was lost: the
\* rule that drops all frames but the last (line 51) never drops a request.  A
\* frame of the message before that is lost after the last iteration before the
\* first write is counted too.
Expires == /\ m_queue # <<>> /\ m_queue' = Tail(m_queue)
           /\ M!Call("expire", Head(m_queue).msg) \in m_calls'
ExpiresOnlyByLoss ==
  [][OneSideBegins /\ 2 * Delay <= m_timeout /\ Expires =>
       losses >= Head(m_queue).granted]_vars
=============================================================================
