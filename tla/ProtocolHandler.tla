--------------------------- MODULE ProtocolHandler ---------------------------
(***************************************************************************)
(* The transaction layer, class ProtocolHandler of                         *)
(* src/src/protocol/haier_protocol.{h,cpp}.  One thread calls loop()       *)
(* repeatedly; the application calls send_message and friends between two  *)
(* iterations or from the handlers that loop() runs.                       *)
(*                                                                         *)
(* An iteration reads the clock once (`now`), runs at most one handler and *)
(* writes at most one queued message.  Everything it compares with `now`   *)
(* is a deadline, so a deadline is kept as the time left until it: -1      *)
(* stands for every deadline that has passed, which is all that            *)
(* `now >= deadline` (left <= 0) and `now > deadline` (left < 0) can tell. *)
(*                                                                         *)
(* The bytes below (read_data, process_data, send_data) appear as the      *)
(* frames an iteration finds parsed, and as the messages whose write fails *)
(* (Unsendable: send_data refuses their data or returns 0).                *)
(***************************************************************************)
EXTENDS Integers, Sequences

CONSTANTS
  Message,            \* the messages the application sends
  Unsendable,         \* those for which write_message_ returns false
  Frame,              \* the frames the peer sends
  NoMessage,          \* FrameType::UNKNOWN_FRAME_TYPE
  MAX_PACKET_RETRIES, \* 9 in the code
  Repeats,            \* values of the argument num_repeats
  RetryIntervals,     \* values of the argument interval
  AnswerTimeouts,     \* values given to set_answer_timeout
  CooldownIntervals,  \* values given to set_cooldown_interval
  HandlerTime,        \* the longest a handler runs
  WriteTime,          \* the longest a write blocks
  MaxBurst,           \* bound: frames parsed in one iteration
  MaxIncoming,        \* bound: frames waiting in incoming_queue_
  Horizon             \* bound: elapsed times are counted up to here

ASSUME MessagesAssumption ==
  /\ Unsendable \subseteq Message
  /\ NoMessage \notin Message
ASSUME LimitsAssumption ==
  /\ MAX_PACKET_RETRIES \in Nat
  /\ Repeats \subseteq Nat
  /\ MaxBurst \in Nat
  /\ MaxIncoming \in Nat
ASSUME TimesAssumption ==
  /\ HandlerTime \in Nat
  /\ WriteTime \in Nat
  /\ Horizon \in Nat
  /\ RetryIntervals \subseteq Nat
  /\ AnswerTimeouts \subseteq Nat /\ AnswerTimeouts # {}
  /\ CooldownIntervals \subseteq Nat /\ CooldownIntervals # {}
\* The count of elapsed time reaches past every interval.
ASSUME HorizonAssumption ==
  \A i \in RetryIntervals \cup AnswerTimeouts \cup CooldownIntervals :
    i + HandlerTime + WriteTime < Horizon

VARIABLES
  state_,                   \* "IDLE" or "WAITING_FOR_ANSWER"
  outgoing_messages_,       \* queue of OutgoingQueueItem
  incoming_queue_,          \* parsed frames, TransportLevelHandler's queue
  last_message_type_,       \* the message last written from the queue
  answer_timeout_interval_,
  cooldown_interval_,
  cooldown_left,            \* cooldown_time_point_ - now
  answer_left,              \* answer_time_point_ - now
  retry_left                \* retry_time_point_ - now

(* History, read by no action: what the last step did, and when.           *)
VARIABLES
  calls,                    \* what the last step did that others can see
  tried,                    \* successful writes of the oldest message
  since_write,              \* time since the last write of any kind
  since_try,                \* time since the last queued message was written
  gap,                      \* cooldown_interval_ at the last write
  window                    \* answer_timeout_interval_ at the last try

timers == <<cooldown_left, answer_left, retry_left>>
settings == <<answer_timeout_interval_, cooldown_interval_>>
history == <<tried, since_write, since_try, gap, window>>
vars == <<state_, outgoing_messages_, incoming_queue_, last_message_type_,
          settings, timers, calls, history>>

-----------------------------------------------------------------------------
(* Messages, handlers and time                                             *)

Tries == 0 .. MAX_PACKET_RETRIES + 1

\* `granted` is number_of_retries as it was first set.
OutgoingQueueItem ==
  [msg: Message, no_answer: BOOLEAN, number_of_retries: Tries,
   retry_interval: RetryIntervals \cup {0}, granted: Tries \ {0}]

Lesser(a, b) == IF a < b THEN a ELSE b

Request(m, num_repeats, interval) ==
  LET n == Lesser(num_repeats, MAX_PACKET_RETRIES) + 1
  IN  [msg |-> m, no_answer |-> FALSE, number_of_retries |-> n,
       retry_interval |-> interval, granted |-> n]

Notification(m) ==
  [msg |-> m, no_answer |-> TRUE, number_of_retries |-> 1,
   retry_interval |-> 0, granted |-> 1]

Queued == {outgoing_messages_[i].msg : i \in DOMAIN outgoing_messages_}

\* A message of the model is one submission, so it is not queued twice.
Submissions ==
  LET fresh == Message \ Queued
  IN  {Request(m, n, i) : m \in fresh, n \in Repeats, i \in RetryIntervals}
      \cup {Notification(m) : m \in fresh}

\* What a handler does that ProtocolHandler sees: it may queue a message,
\* it takes time, and a message handler may call send_answer.
Batches == {<<>>} \cup {<<s>> : s \in Submissions}
HandlerRuns(may_answer) ==
  [pushed: Batches, answered: may_answer, took: 0..HandlerTime]

NoRun == [pushed |-> <<>>, answered |-> FALSE, took |-> 0]

\* The frames that read_data and process_data add in one iteration.
Arrivals ==
  UNION {[1..n -> Frame] :
           n \in {k \in 0..MaxBurst : Len(incoming_queue_) + k <= MaxIncoming}}

\* The time left after a further t has passed; elapsed time after it.
Left(left, t) == IF left - t < -1 THEN -1 ELSE left - t
Elapsed(since, t) == Lesser(since + t, Horizon)

Call(op, m) == [op |-> op, msg |-> m]
Answering == Call("answer", NoMessage)

-----------------------------------------------------------------------------
(* The IDLE part of loop(): the message handler, then the queue.           *)
(* q is the queue after the handler, cooldown the time that was left of    *)
(* the cooldown when `now` was read, e the time the write takes.           *)

\* Mutant: the try is taken from every message of the queue.
UseTryOfAll(q) ==
  [i \in DOMAIN q |-> [q[i] EXCEPT !.number_of_retries = @ - 1]]

\* The oldest message of q has one try less (line 103).
UseTry(q) == [q EXCEPT ![1].number_of_retries = @ - 1]

\* Mutant: the interval asked for between two tries is ignored.
ReadyAtOnce(q, cooldown) == q # <<>> /\ cooldown <= 0

\* Mutant: the cooldown is ignored.
ReadyWhileHot(q, cooldown) == q # <<>> /\ retry_left <= 0

\* `now` has reached cooldown_time_point_ and retry_time_point_.
Ready(q, cooldown) == q # <<>> /\ cooldown <= 0 /\ retry_left <= 0

SeenCalls(run) == IF run.answered THEN {Answering} ELSE {}

\* The queue is left as it is.
Rest(q, cooldown, run) ==
  /\ ~Ready(q, cooldown)
  /\ outgoing_messages_' = q
  /\ calls' = SeenCalls(run)
  /\ cooldown_left' = Left(cooldown, run.took)
  /\ answer_left' = Left(answer_left, run.took)
  /\ retry_left' = Left(retry_left, run.took)
  /\ since_write' = IF run.answered THEN 0 ELSE Elapsed(since_write, run.took)
  /\ since_try' = Elapsed(since_try, run.took)
  /\ gap' = IF run.answered THEN cooldown_interval_ ELSE gap
  /\ UNCHANGED <<state_, last_message_type_, tried, window>>

\* The oldest message is written and, unless it wants no answer, awaited.
\* For a message that wants none, line 103 then decrements the counter of an
\* item that was popped: a write to freed memory no queue item lives in.
Transmit(q, cooldown, run, e) ==
  LET msg == Head(q)
      t == run.took + e
  IN  /\ Ready(q, cooldown)
      /\ msg.number_of_retries > 0
      /\ msg.msg \notin Unsendable
      /\ last_message_type_' = msg.msg
      /\ IF msg.no_answer
           THEN /\ outgoing_messages_' = Tail(q)
                /\ retry_left' = Left(0, t)
                /\ answer_left' = Left(answer_left, t)
                /\ tried' = 0
                /\ UNCHANGED <<state_, window>>
           ELSE /\ outgoing_messages_' = UseTry(q)
                /\ state_' = "WAITING_FOR_ANSWER"
                /\ answer_left' = Left(answer_timeout_interval_, t)
                /\ retry_left' = Left(msg.retry_interval, t)
                /\ tried' = tried + 1
                /\ window' = answer_timeout_interval_
      /\ cooldown_left' = cooldown_interval_
      /\ calls' = SeenCalls(run)
                  \cup {Call(IF msg.no_answer THEN "notify" ELSE "request", msg.msg)}
      /\ since_write' = 0
      /\ since_try' = 0
      /\ gap' = cooldown_interval_

\* Mutants: a failed write is tried without looking at the tries left; a
\* failed write costs no try.
RefuseUnchecked(q, cooldown, run, e) ==
  /\ Ready(q, cooldown)
  /\ Head(q).msg \in Unsendable
  /\ outgoing_messages_' = UseTry(q)
  /\ cooldown_left' = cooldown_interval_
  /\ calls' = SeenCalls(run)
  /\ UNCHANGED <<state_, last_message_type_, answer_left, retry_left, history>>

RefuseForFree(q, cooldown, run, e) ==
  /\ Ready(q, cooldown)
  /\ Head(q).msg \in Unsendable
  /\ outgoing_messages_' = q
  /\ cooldown_left' = cooldown_interval_
  /\ calls' = SeenCalls(run)
  /\ UNCHANGED <<state_, last_message_type_, answer_left, retry_left, history>>

\* write_message_ fails: the try is used up and the cooldown restarts.
Refuse(q, cooldown, run, e) ==
  LET t == run.took + e
  IN  /\ Ready(q, cooldown)
      /\ Head(q).number_of_retries > 0
      /\ Head(q).msg \in Unsendable
      /\ outgoing_messages_' = UseTry(q)
      /\ cooldown_left' = cooldown_interval_
      /\ answer_left' = Left(answer_left, t)
      /\ retry_left' = Left(retry_left, t)
      /\ calls' = SeenCalls(run)
      /\ since_write' = 0
      /\ since_try' = Elapsed(since_try, t)
      /\ gap' = cooldown_interval_
      /\ UNCHANGED <<state_, last_message_type_, tried, window>>

\* The oldest message has no try left: it is removed, no handler is told.
Discard(q, cooldown, run) ==
  /\ Ready(q, cooldown)
  /\ Head(q).number_of_retries = 0
  /\ outgoing_messages_' = Tail(q)
  /\ retry_left' = Left(0, run.took)
  /\ cooldown_left' = Left(cooldown, run.took)
  /\ answer_left' = Left(answer_left, run.took)
  /\ calls' = SeenCalls(run) \cup {Call("drop", Head(q).msg)}
  /\ since_write' = IF run.answered THEN 0 ELSE Elapsed(since_write, run.took)
  /\ since_try' = Elapsed(since_try, run.took)
  /\ gap' = IF run.answered THEN cooldown_interval_ ELSE gap
  /\ tried' = 0
  /\ UNCHANGED <<state_, last_message_type_, window>>

\* With several frames waiting, all but the last are dropped; the last is
\* handled.  cooldown_time_point_ is moved by send_answer in the handler.
MessageHandlerRuns(frames) ==
  IF frames = <<>> THEN {NoRun} ELSE HandlerRuns(BOOLEAN)

\* Mutant: the cooldown is looked at before the handler runs.
CooldownBefore(run) == cooldown_left

CooldownAfter(run) ==
  IF run.answered THEN run.took + cooldown_interval_ ELSE cooldown_left

\* The iteration in which the message handler, if any, does what run tells.
IdleIteration(arrived, run) ==
  /\ state_ = "IDLE"
  /\ incoming_queue_' = <<>>
  /\ LET q == outgoing_messages_ \o run.pushed
         cooldown == CooldownAfter(run)
     IN  \/ Rest(q, cooldown, run)
         \/ \E e \in 0..WriteTime : Transmit(q, cooldown, run, e)
         \/ \E e \in 0..WriteTime : Refuse(q, cooldown, run, e)
         \/ Discard(q, cooldown, run)
  /\ UNCHANGED settings

LoopIdle(arrived) ==
  \E run \in MessageHandlerRuns(incoming_queue_ \o arrived) :
    IdleIteration(arrived, run)

-----------------------------------------------------------------------------
(* The WAITING_FOR_ANSWER part of loop(): the timeout is looked at first,  *)
(* then at most one frame.                                                 *)

\* Mutant: the state is not set back to IDLE.
FinishWaiting(run, op) ==
  /\ outgoing_messages_' = Tail(outgoing_messages_) \o run.pushed
  /\ retry_left' = Left(0, run.took)
  /\ calls' = {Call(op, last_message_type_)}
  /\ tried' = 0
  /\ UNCHANGED <<state_, last_message_type_, cooldown_left, answer_left,
                 since_write, since_try, gap, window, settings>>

\* The oldest message leaves the queue after a handler ran.
Finish(run, op) ==
  /\ outgoing_messages_' = Tail(outgoing_messages_) \o run.pushed
  /\ state_' = "IDLE"
  /\ retry_left' = Left(0, run.took)
  /\ cooldown_left' = Left(cooldown_left, run.took)
  /\ answer_left' = Left(answer_left, run.took)
  /\ calls' = {Call(op, last_message_type_)}
  /\ since_write' = Elapsed(since_write, run.took)
  /\ since_try' = Elapsed(since_try, run.took)
  /\ tried' = 0
  /\ UNCHANGED <<last_message_type_, gap, window, settings>>

\* `now` is past answer_time_point_ and no try is left.
ExpireIteration(arrived, run) ==
  /\ state_ = "WAITING_FOR_ANSWER"
  /\ answer_left < 0
  /\ Head(outgoing_messages_).number_of_retries = 0
  /\ incoming_queue_' = incoming_queue_ \o arrived
  /\ Finish(run, "expire")

LoopExpire(arrived) == \E run \in HandlerRuns({FALSE}) : ExpireIteration(arrived, run)

\* Mutant: a timeout goes back to IDLE without looking at the tries left.
LoopRetryAlways(arrived) ==
  /\ state_ = "WAITING_FOR_ANSWER"
  /\ answer_left < 0
  /\ incoming_queue_' = incoming_queue_ \o arrived
  /\ state_' = "IDLE"
  /\ calls' = {}
  /\ UNCHANGED <<outgoing_messages_, last_message_type_, settings, timers, history>>

\* `now` is past answer_time_point_ and a later iteration will try again.
LoopRetry(arrived) ==
  /\ state_ = "WAITING_FOR_ANSWER"
  /\ answer_left < 0
  /\ Head(outgoing_messages_).number_of_retries # 0
  /\ incoming_queue_' = incoming_queue_ \o arrived
  /\ state_' = "IDLE"
  /\ calls' = {}
  /\ UNCHANGED <<outgoing_messages_, last_message_type_, settings, timers, history>>

\* Mutant: a frame is looked for before the timeout is.
LoopAnswerFirst(arrived) ==
  LET frames == incoming_queue_ \o arrived
  IN  /\ state_ = "WAITING_FOR_ANSWER"
      /\ frames # <<>>
      /\ incoming_queue_' = Tail(frames)
      /\ \E run \in HandlerRuns({FALSE}) : Finish(run, "answered")

\* A frame is there in time: it is the answer, whatever it is.
AnswerIteration(arrived, run) ==
  LET frames == incoming_queue_ \o arrived
  IN  /\ state_ = "WAITING_FOR_ANSWER"
      /\ answer_left >= 0
      /\ frames # <<>>
      /\ incoming_queue_' = Tail(frames)
      /\ Finish(run, "answered")

LoopAnswer(arrived) == \E run \in HandlerRuns({FALSE}) : AnswerIteration(arrived, run)

\* No frame yet.
LoopWait ==
  /\ state_ = "WAITING_FOR_ANSWER"
  /\ answer_left >= 0
  /\ incoming_queue_ = <<>>
  /\ calls' = {}
  /\ UNCHANGED <<state_, outgoing_messages_, incoming_queue_,
                 last_message_type_, settings, timers, history>>

loop == \/ \E arrived \in Arrivals : \/ LoopIdle(arrived)
                                     \/ LoopExpire(arrived)
                                     \/ LoopRetry(arrived)
                                     \/ LoopAnswer(arrived)
        \/ LoopWait

\* One call of loop() whose arrivals and whose handler are known: for modules
\* that say what the peer sends and what the handlers do.
Iteration(arrived, run) ==
  \/ IdleIteration(arrived, run)
  \/ ExpireIteration(arrived, run)
  \/ LoopRetry(arrived)
  \/ AnswerIteration(arrived, run)
  \/ arrived = <<>> /\ LoopWait

-----------------------------------------------------------------------------
(* The application between two iterations, and time                        *)

\* Mutant: the newest message is put first.
EnqueueFirst(item) ==
  /\ outgoing_messages_' = <<item>> \o outgoing_messages_
  /\ calls' = {}
  /\ UNCHANGED <<state_, incoming_queue_, last_message_type_, settings,
                 timers, history>>

Enqueue(item) ==
  /\ outgoing_messages_' = Append(outgoing_messages_, item)
  /\ calls' = {}
  /\ UNCHANGED <<state_, incoming_queue_, last_message_type_, settings,
                 timers, history>>

send_message(m, num_repeats, interval) ==
  m \notin Queued /\ Enqueue(Request(m, num_repeats, interval))

send_message_without_answer(m) ==
  m \notin Queued /\ Enqueue(Notification(m))

set_answer_timeout(i) ==
  /\ answer_timeout_interval_' = i
  /\ calls' = {}
  /\ UNCHANGED <<state_, outgoing_messages_, incoming_queue_,
                 last_message_type_, cooldown_interval_, timers, history>>

set_cooldown_interval(i) ==
  /\ cooldown_interval_' = i
  /\ calls' = {}
  /\ UNCHANGED <<state_, outgoing_messages_, incoming_queue_,
                 last_message_type_, answer_timeout_interval_, timers, history>>

\* Time passes between two iterations.
Tick ==
  /\ cooldown_left' = Left(cooldown_left, 1)
  /\ answer_left' = Left(answer_left, 1)
  /\ retry_left' = Left(retry_left, 1)
  /\ since_write' = Elapsed(since_write, 1)
  /\ since_try' = Elapsed(since_try, 1)
  /\ calls' = {}
  /\ UNCHANGED <<state_, outgoing_messages_, incoming_queue_,
                 last_message_type_, settings, tried, gap, window>>

-----------------------------------------------------------------------------
\* The three time points start at the epoch of the clock, long ago.
Init ==
  /\ state_ = "IDLE"
  /\ outgoing_messages_ = <<>>
  /\ incoming_queue_ = <<>>
  /\ last_message_type_ = NoMessage
  /\ answer_timeout_interval_ \in AnswerTimeouts
  /\ cooldown_interval_ \in CooldownIntervals
  /\ cooldown_left = -1
  /\ answer_left = -1
  /\ retry_left = -1
  /\ calls = {}
  /\ tried = 0
  /\ since_write = Horizon
  /\ since_try = Horizon
  /\ gap = 0
  /\ window = 0

Next ==
  \/ loop
  \/ \E m \in Message, n \in Repeats, i \in RetryIntervals : send_message(m, n, i)
  \/ \E m \in Message : send_message_without_answer(m)
  \/ \E i \in AnswerTimeouts : set_answer_timeout(i)
  \/ \E i \in CooldownIntervals : set_cooldown_interval(i)
  \/ Tick

Spec == Init /\ [][Next]_vars

\* The application keeps calling loop() and the clock keeps running.
Fairness == WF_vars(loop) /\ WF_vars(Tick)
FairSpec == Spec /\ Fairness

-----------------------------------------------------------------------------
(* Properties                                                              *)

\* The state has its types, deadlines and elapsed times their ranges.
TypeOK ==
  /\ state_ \in {"IDLE", "WAITING_FOR_ANSWER"}
  /\ outgoing_messages_ \in Seq(OutgoingQueueItem)
  /\ incoming_queue_ \in Seq(Frame)
  /\ last_message_type_ \in Message \cup {NoMessage}
  /\ answer_timeout_interval_ \in AnswerTimeouts
  /\ cooldown_interval_ \in CooldownIntervals
  /\ cooldown_left \in Int /\ cooldown_left >= -1
  /\ answer_left \in Int /\ answer_left >= -1
  /\ retry_left \in Int /\ retry_left >= -1
  /\ tried \in Nat
  /\ since_write \in 0..Horizon
  /\ since_try \in 0..Horizon
  /\ gap \in CooldownIntervals \cup {0}
  /\ window \in AnswerTimeouts \cup {0}

\* While an answer is awaited the request it belongs to is still the oldest
\* queued message, it wants an answer, and it is the one last_message_type_
\* names: so loop() never takes the front of an empty queue in lines 117 and
\* 154, and the handlers are called for the message that they then remove.
AwaitsTheOldest ==
  state_ = "WAITING_FOR_ANSWER" =>
    /\ outgoing_messages_ # <<>>
    /\ ~Head(outgoing_messages_).no_answer
    /\ Head(outgoing_messages_).msg = last_message_type_

\* Tries are accounted for: those made and those left of the oldest message
\* are the ones granted, min(num_repeats, 9) + 1 at most, and no later message
\* has lost one.
TriesAddUp ==
  /\ \A i \in 2 .. Len(outgoing_messages_) :
       LET item == outgoing_messages_[i]
       IN  item.number_of_retries = item.granted
  /\ IF outgoing_messages_ = <<>> \/ outgoing_messages_[1].msg \in Unsendable
       THEN tried = 0
       ELSE outgoing_messages_[1].number_of_retries + tried
              = outgoing_messages_[1].granted

Writes(m) == {Call("request", m), Call("notify", m)} \cap calls' # {}

\* A message that can be written is never dropped without a handler being
\* told (lines 104 to 107): every message that reaches that branch is one whose
\* writes failed.
DropIsForced == \A m \in Message : Call("drop", m) \in calls' => m \in Unsendable
DropsOnlyUnsendable == [][DropIsForced]_vars

\* A queued message is not written before the cooldown that the last write
\* started is over, whether that write was a queued message, a failed one or an
\* answer sent by a handler, in this iteration or in an earlier one.
WriteIsCool ==
  (\E m \in Message : Writes(m)) =>
    IF Answering \in calls' THEN cooldown_interval_ = 0 ELSE since_write >= gap
CooldownRespected == [][WriteIsCool]_vars

\* How much less than an interval can have passed between two events: the
\* deadlines count from the start of the iteration that wrote the message.
LoopTime == HandlerTime + WriteTime

\* A request is given up or written again only after the time its peer had to
\* answer, less what the iteration that wrote it took; it is not written again
\* before its retry interval; and it expires only when all its tries were made.
GivesUpInTime ==
  \A m \in Message :
    LET oldest == Head(outgoing_messages_)
    IN  /\ Call("expire", m) \in calls' =>
             tried = oldest.granted /\ since_try + LoopTime > window
        /\ Call("request", m) \in calls' /\ tried > 0 =>
             /\ since_try + LoopTime > window
             /\ since_try + LoopTime >= oldest.retry_interval
PatientWithPeer == [][GivesUpInTime]_vars

\* An answer handler runs for a request only after the request was written
\* and within the time its answer was given.
AnswerIsTimely ==
  \A m \in Message :
    Call("answered", m) \in calls' => tried > 0 /\ since_try <= window
AnswersInTime == [][AnswerIsTimely]_vars

\* An application's view of the queue is that of RequestQueue: a message is
\* handed over once, tried in order and within its tries, and told about once
\* when it leaves the queue, in one of the four ways.
Pending ==
  [i \in DOMAIN outgoing_messages_ |->
     [msg |-> outgoing_messages_[i].msg,
      wants_answer |-> ~outgoing_messages_[i].no_answer,
      left |-> outgoing_messages_[i].number_of_retries]]

Queue == INSTANCE RequestQueue WITH
           MaxTries <- MAX_PACKET_RETRIES + 1,
           pending <- Pending,
           awaiting <- (state_ = "WAITING_FOR_ANSWER"),
           ended <- {c \in calls : c.op \in {"answered", "expire", "notify", "drop"}}

ImplementsQueue == Queue!Spec

\* Every queued message leaves the queue in the end, unless the peer keeps the
\* handlers answering: each answer moves cooldown_time_point_, so a peer that
\* asks more often than the cooldown keeps the queue waiting.
QueueDrains ==
  []<>(Answering \in calls)
    \/ \A m \in Message : (m \in Queued) ~> (m \notin Queued)
=============================================================================
