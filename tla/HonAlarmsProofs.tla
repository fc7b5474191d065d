--------------------------- MODULE HonAlarmsProofs ---------------------------
(***************************************************************************)
(* Who may silence the alarms, for any number of alarms, any size of       *)
(* size_t and any intervals, with every frame of the peer and every key at *)
(* any moment.                                                             *)
(*                                                                         *)
(* A confirmation may end the reports because of what alarm_status_buf is  *)
(* then, while the peer has seen what it was when the report was queued.   *)
(* IInv relates the two: unless alarms were reset meanwhile, the alarms of *)
(* an open report are still active.                                        *)
(*                                                                         *)
(* How long an alarm waits to be reported depends on where the report is:  *)
(* TimeInv bounds the wait in each of the six places, by the deadlines of  *)
(* the handler and the time since the last report.                         *)
(***************************************************************************)
EXTENDS HonAlarms, SequenceTheorems, TLAPS

Report == {item \in H!OutgoingQueueItem : item.no_answer = FALSE}

\* At most one report is queued, and one is while its answer is awaited.
OneReport ==
  /\ outgoing_messages_ \in {<<>>} \cup {<<r>> : r \in Report}
  /\ state_ = "WAITING_FOR_ANSWER" => outgoing_messages_ # <<>>

OpenReportHolds ==
  ReportOpen => raced \/ Head(outgoing_messages_).msg \subseteq alarm_status_buf

Flags ==
  /\ alarm_paused \in BOOLEAN /\ alarm_stopped \in BOOLEAN
  /\ _trigger_random_alarm \in BOOLEAN /\ _reset_alarm \in BOOLEAN
  /\ silenced \in BOOLEAN /\ raced \in BOOLEAN

Counts == since_report \in 0 .. LongInterval + 1 /\ wait \in -1 .. Horizon

Types == alarm_status_buf \subseteq Alarm /\ Flags /\ Counts

IInv ==
  /\ Types /\ OneReport /\ OpenReportHolds
  /\ SilencedOnlyByPeer
  /\ silenced => alarm_stopped

-----------------------------------------------------------------------------
(* What an iteration of the handler does to the report                     *)

LEMMA ReportIsOldest ==
  ASSUME NEW r \in Report
  PROVE  /\ <<r>> # <<>> /\ Head(<<r>>) = r /\ Tail(<<r>>) = <<>>
         /\ <<r>> \o <<>> = <<r>> /\ Tail(<<r>>) \o <<>> = <<>>
  OBVIOUS

LEMMA TryKeepsReport ==
  ASSUME NEW r \in Report, r.number_of_retries > 0
  PROVE  \E s \in Report : H!UseTry(<<r>>) = <<s>> /\ s.msg = r.msg
<1>. DEFINE s == [r EXCEPT !.number_of_retries = @ - 1]
<1>1. r \in H!OutgoingQueueItem /\ r.no_answer = FALSE
  BY DEF Report
<1>2. s \in H!OutgoingQueueItem /\ s.no_answer = r.no_answer /\ s.msg = r.msg
  BY <1>1 DEF H!OutgoingQueueItem, H!Tries
<1>3. H!UseTry(<<r>>) = <<s>>
  BY DEF H!UseTry
<1>. QED
  BY <1>1, <1>2, <1>3 DEF Report

\* After an iteration the report is the same or gone, and it was open if it was
\* answered.
LEMMA IterationKeepsReport ==
  ASSUME OneReport, NEW arrived, NEW frames, H!Iteration(arrived, HandlerRun(frames))
  PROVE  /\ OneReport'
         /\ ReportOpen' => ReportOpen /\ Head(outgoing_messages_)'.msg = Head(outgoing_messages_).msg
         /\ (\E c \in calls' : c.op = "answered") => ReportOpen
<1>. DEFINE run == HandlerRun(frames)
            Same == outgoing_messages_' = outgoing_messages_
            Tried == \E r \in Report, s \in Report :
                       outgoing_messages_ = <<r>> /\ outgoing_messages_' = <<s>> /\ s.msg = r.msg
            Gone == outgoing_messages_' = <<>>
            Silent == \A c \in calls' : c.op # "answered"
<1>1. run.pushed = <<>>
  BY DEF HandlerRun
<1>2. outgoing_messages_ \o run.pushed = outgoing_messages_
  BY <1>1, ReportIsOldest DEF OneReport
<1>3. ASSUME H!IdleIteration(arrived, run)
      PROVE  /\ Silent /\ (Same \/ Tried \/ Gone)
             /\ state_' = "WAITING_FOR_ANSWER" => Tried
  <2>. DEFINE cooldown == H!CooldownAfter(run)
              q == outgoing_messages_
  <2>1. /\ state_ = "IDLE"
        /\ \/ H!Rest(q, cooldown, run)
           \/ \E e \in 0 .. 0 : H!Transmit(q, cooldown, run, e)
           \/ \E e \in 0 .. 0 : H!Refuse(q, cooldown, run, e)
           \/ H!Discard(q, cooldown, run)
    BY <1>2, <1>3 DEF H!IdleIteration
  <2>2. CASE H!Rest(q, cooldown, run)
    BY <2>1, <2>2 DEF H!Rest, H!SeenCalls, H!Answering, H!Call
  <2>3. ASSUME NEW e \in 0 .. 0, H!Transmit(q, cooldown, run, e)
        PROVE  Silent /\ Tried
    <3>1. q # <<>> /\ Head(q).number_of_retries > 0
      BY <2>3 DEF H!Transmit, H!Ready
    <3>2. PICK r \in Report : q = <<r>>
      BY <3>1 DEF OneReport
    <3>3. Head(q) = r /\ r.number_of_retries > 0 /\ r.no_answer = FALSE
      BY <3>1, <3>2 DEF Report
    <3>4. outgoing_messages_' = H!UseTry(q)
      BY <2>3, <3>3 DEF H!Transmit
    <3>5. Tried
      BY <3>2, <3>3, <3>4, TryKeepsReport
    <3>6. Silent
      BY <2>3 DEF H!Transmit, H!SeenCalls, H!Answering, H!Call
    <3>. QED
      BY <3>5, <3>6
  <2>4. ASSUME NEW e \in 0 .. 0, H!Refuse(q, cooldown, run, e)
        PROVE  FALSE
    BY <2>4 DEF H!Refuse
  <2>5. ASSUME H!Discard(q, cooldown, run)
        PROVE  Silent /\ Gone /\ state_' = "IDLE"
    <3>1. PICK r \in Report : q = <<r>>
      BY <2>5 DEF H!Discard, H!Ready, OneReport
    <3>2. Gone /\ state_' = "IDLE"
      BY <2>1, <2>5, <3>1 DEF H!Discard
    <3>3. Silent
      BY <2>5 DEF H!Discard, H!SeenCalls, H!Answering, H!Call
    <3>. QED
      BY <3>2, <3>3
  <2>. QED
    BY <2>1, <2>2, <2>3, <2>4, <2>5 DEF H!Rest
<1>4. ASSUME NEW op, state_ = "WAITING_FOR_ANSWER", H!Finish(run, op)
      PROVE  Gone /\ state_' = "IDLE" /\ ReportOpen
  <2>1. PICK r \in Report : outgoing_messages_ = <<r>>
    BY <1>4 DEF OneReport
  <2>2. outgoing_messages_' = Tail(outgoing_messages_) \o run.pushed /\ state_' = "IDLE"
    BY <1>4 DEF H!Finish
  <2>. QED
    BY <1>1, <2>1, <2>2, ReportIsOldest DEF ReportOpen
<1>5. CASE H!ExpireIteration(arrived, run) \/ H!AnswerIteration(arrived, run)
  <2>1. Gone /\ state_' = "IDLE" /\ ReportOpen
    BY <1>4, <1>5 DEF H!ExpireIteration, H!AnswerIteration
  <2>. QED
    BY <2>1 DEF OneReport, ReportOpen
<1>6. CASE H!LoopRetry(arrived) \/ H!LoopWait
  <2>1. Same /\ Silent /\ (state_' = "WAITING_FOR_ANSWER" => state_ = "WAITING_FOR_ANSWER")
    BY <1>6 DEF H!LoopRetry, H!LoopWait
  <2>. QED
    BY <2>1 DEF OneReport, ReportOpen
<1>7. CASE H!IdleIteration(arrived, run)
  <2>1. /\ Silent /\ (Same \/ Tried \/ Gone)
        /\ state_' = "WAITING_FOR_ANSWER" => Tried
    BY <1>3, <1>7
  <2>2. CASE Tried
    <3>1. PICK r \in Report, t \in Report :
            outgoing_messages_ = <<r>> /\ outgoing_messages_' = <<t>> /\ t.msg = r.msg
      BY <2>2
    <3>2. /\ Head(outgoing_messages_)' = t /\ Head(outgoing_messages_) = r
          /\ outgoing_messages_ # <<>> /\ outgoing_messages_' # <<>>
      BY <3>1, ReportIsOldest
    <3>. QED
      BY <2>1, <3>1, <3>2 DEF OneReport, ReportOpen
  <2>. HIDE DEF Tried, Same, Gone
  <2>3. ~ \E c \in calls' : c.op = "answered"
    BY <2>1, Zenon
  <2>. HIDE DEF Silent
  <2>. USE DEF Same, Gone
  <2>4. CASE Same /\ ~Tried
    <3>1. outgoing_messages_' \in {<<>>} \cup {<<r>> : r \in Report}
      BY <2>4, Zenon DEF OneReport
    <3>2. Head(outgoing_messages_)' = Head(outgoing_messages_)
      BY <2>4
    <3>. QED
      BY <2>1, <2>3, <2>4, <3>1, <3>2, Zenon DEF OneReport, ReportOpen
  <2>5. CASE Gone /\ ~Tried
    <3>1. outgoing_messages_' \in {<<>>} \cup {<<r>> : r \in Report}
      BY <2>5
    <3>. QED
      BY <2>1, <2>3, <2>5, <3>1, Zenon DEF OneReport, ReportOpen
  <2>. QED
    BY <2>1, <2>2, <2>4, <2>5
<1>. QED
  BY <1>5, <1>6, <1>7 DEF H!Iteration

-----------------------------------------------------------------------------
(* The blocks of the protocol thread, the keys and the clock               *)

LEMMA LimitsAreNumbers ==
  /\ ShortInterval \in Nat /\ LongInterval \in Nat /\ AnswerTimeout \in Nat
  /\ Cooldown \in Nat /\ Horizon \in Nat
  BY IntervalsAssumption

\* A step that changes nothing but flags of the keys.
LEMMA SameKeeps ==
  ASSUME IInv,
         alarm_status_buf' = alarm_status_buf, alarm_paused' = alarm_paused,
         alarm_stopped' = alarm_stopped, silenced' = silenced, raced' = raced,
         since_report' = since_report, wait' = wait,
         outgoing_messages_' = outgoing_messages_, state_' = state_,
         _trigger_random_alarm' \in BOOLEAN, _reset_alarm' \in BOOLEAN
  PROVE  IInv'
<1>1. Flags'
  BY Zenon DEF IInv, Types, Flags
<1>2. Counts'
  BY DEF IInv, Types, Counts
<1>3. OneReport' /\ OpenReportHolds'
  BY DEF IInv, OneReport, OpenReportHolds, ReportOpen
<1>4. SilencedOnlyByPeer' /\ (silenced' => alarm_stopped')
  BY Zenon DEF IInv, SilencedOnlyByPeer
<1>. QED
  BY <1>1, <1>2, <1>3, <1>4 DEF IInv, Types

LEMMA InitIInv == Init => IInv
<1>. SUFFICES ASSUME Init PROVE IInv
  OBVIOUS
<1>1. Types
  <2>1. Flags
    BY Zenon DEF Init, Flags
  <2>2. Counts
    BY LimitsAreNumbers DEF Init, Counts
  <2>. QED
    BY <2>1, <2>2 DEF Init, Types
<1>2. outgoing_messages_ = <<>> /\ state_ = "IDLE"
  BY DEF Init, H!Init
<1>3. OneReport /\ OpenReportHolds
  BY <1>2 DEF OneReport, OpenReportHolds, ReportOpen
<1>. QED
  BY <1>1, <1>3 DEF Init, IInv, SilencedOnlyByPeer

LEMMA TriggerKeeps == ASSUME IInv, Trigger PROVE IInv'
<1>1. CASE _trigger_random_alarm
  <2>1. PICK d \in Draw :
          LET r == HON_ALARM_COUNT - d
          IN  /\ start_alarm(r)
              /\ wait' = IF r = Watched /\ wait = -1 THEN 0 ELSE wait
              /\ silenced' = (silenced /\ r \notin Alarm)
    BY <1>1 DEF Trigger
  <2>. DEFINE r == HON_ALARM_COUNT - d
  <2>2. r \in Nat /\ (r >= HON_ALARM_COUNT <=> r \notin Alarm)
    BY AlarmsAssumption DEF Alarm
  <2>. HIDE DEF r
  <2>3. Counts'
    <3>1. wait' \in -1 .. Horizon
      BY <2>1, LimitsAreNumbers DEF IInv, Types, Counts
    <3>. QED
      BY <3>1 DEF Trigger, IInv, Types, Counts
  <2>4. /\ outgoing_messages_' = outgoing_messages_ /\ state_' = state_
        /\ _trigger_random_alarm' = FALSE /\ _reset_alarm' = _reset_alarm /\ raced' = raced
    BY DEF Trigger, handler
  <2>a. OneReport'
    BY <2>4 DEF IInv, OneReport
  <2>5. CASE r \notin Alarm
    <3>1. /\ alarm_status_buf' = alarm_status_buf /\ alarm_paused' = alarm_paused
          /\ alarm_stopped' = alarm_stopped
      BY <2>1, <2>2, <2>5 DEF start_alarm, r
    <3>2. silenced' = silenced
      BY <2>1, <2>5, Zenon DEF r, IInv, Types, Flags
    <3>3. Flags'
      BY <2>4, <3>1, <3>2, Zenon DEF IInv, Types, Flags
    <3>4. OpenReportHolds' /\ SilencedOnlyByPeer' /\ (silenced' => alarm_stopped')
      BY <2>4, <3>1, <3>2, Zenon DEF IInv, OpenReportHolds, ReportOpen, SilencedOnlyByPeer
    <3>. QED
      BY <2>3, <2>a, <3>1, <3>3, <3>4, Zenon DEF IInv, Types
  <2>6. CASE r \in Alarm
    <3>1. /\ alarm_status_buf' = alarm_status_buf \cup {r} /\ alarm_paused' = FALSE
          /\ alarm_stopped' = FALSE
      BY <2>1, <2>2, <2>6 DEF start_alarm, r
    <3>2. silenced' = FALSE
      BY <2>1, <2>6, Zenon DEF r
    <3>3. Flags'
      BY <2>4, <3>1, <3>2, Zenon DEF IInv, Types, Flags
    <3>4. SilencedOnlyByPeer' /\ (silenced' => alarm_stopped')
      BY <3>1, <3>2, Zenon DEF SilencedOnlyByPeer
    <3>5. alarm_status_buf' \subseteq Alarm /\ alarm_status_buf \subseteq alarm_status_buf'
      BY <2>6, <3>1 DEF IInv, Types
    <3>6. OpenReportHolds'
      <4>. SUFFICES ASSUME ReportOpen, ~raced
                    PROVE  Head(outgoing_messages_).msg \subseteq alarm_status_buf'
        BY <2>4, Zenon DEF OpenReportHolds, ReportOpen
      <4>1. Head(outgoing_messages_).msg \subseteq alarm_status_buf
        BY Zenon DEF IInv, OpenReportHolds
      <4>. QED
        BY <3>5, <4>1
    <3>. QED
      BY <2>3, <2>a, <3>3, <3>4, <3>5, <3>6, Zenon DEF IInv, Types
  <2>. QED
    BY <2>5, <2>6
<1>2. CASE ~_trigger_random_alarm
  BY <1>2, SameKeeps, Zenon DEF Trigger, handler, IInv, Types, Flags
<1>. QED
  BY <1>1, <1>2

LEMMA ResetKeeps == ASSUME IInv, Reset PROVE IInv'
<1>1. /\ outgoing_messages_' = outgoing_messages_ /\ state_' = state_
      /\ alarm_stopped' = alarm_stopped /\ silenced' = silenced
      /\ since_report' = since_report /\ _reset_alarm' = FALSE
      /\ _trigger_random_alarm' = _trigger_random_alarm
  BY DEF Reset, handler
<1>2. CASE _reset_alarm
  <2>1. alarm_status_buf' \subseteq alarm_status_buf /\ alarm_paused' = FALSE
    BY <1>2 DEF Reset, reset_alarms
  <2>2. raced' = (raced \/ ReportOpen)
    BY <1>2 DEF Reset
  <2>3. Counts'
    <3>1. wait' \in -1 .. Horizon
      BY <1>2, LimitsAreNumbers DEF Reset, IInv, Types, Counts
    <3>. QED
      BY <1>1, <3>1 DEF IInv, Types, Counts
  <2>4. Flags'
    <3>1. raced' \in BOOLEAN
      BY <2>2, Zenon
    <3>. QED
      BY <1>1, <2>1, <3>1, Zenon DEF IInv, Types, Flags
  <2>5. OneReport'
    BY <1>1 DEF IInv, OneReport
  <2>6. OpenReportHolds'
    BY <1>1, <2>2, Zenon DEF OpenReportHolds, ReportOpen
  <2>7. alarm_status_buf' \subseteq Alarm /\ (alarm_status_buf' # {} => alarm_status_buf # {})
    BY <2>1 DEF IInv, Types
  <2>8. SilencedOnlyByPeer' /\ (silenced' => alarm_stopped')
    BY <1>1, <2>7, Zenon DEF IInv, SilencedOnlyByPeer
  <2>. QED
    BY <2>3, <2>4, <2>5, <2>6, <2>7, <2>8, Zenon DEF IInv, Types
<1>3. CASE ~_reset_alarm
  BY <1>1, <1>3, SameKeeps, Zenon DEF Reset, IInv, Types, Flags
<1>. QED
  BY <1>2, <1>3

\* A new report lists what is active.
LEMMA ReportKeeps == ASSUME IInv, process_alarms PROVE IInv'
<1>1. /\ alarm_status_buf' = alarm_status_buf /\ alarm_stopped' = alarm_stopped
      /\ _trigger_random_alarm' = _trigger_random_alarm /\ _reset_alarm' = _reset_alarm
      /\ wait' = wait /\ silenced' = silenced
  BY DEF process_alarms, flags
<1>2. CASE MayReport
  <2>. DEFINE r == H!Request(alarm_status_buf, 0, 0)
  <2>1. /\ outgoing_messages_ = <<>> /\ outgoing_messages_' = Append(outgoing_messages_, r)
        /\ state_' = state_ /\ alarm_paused' = FALSE /\ since_report' = 0 /\ raced' = FALSE
    BY <1>2 DEF process_alarms, MayReport, H!send_message, H!Enqueue
  <2>2. r \in Report /\ r.msg = alarm_status_buf
    BY DEF r, H!Request, H!Lesser, Report, H!OutgoingQueueItem, H!Tries, IInv, Types
  <2>. HIDE DEF r
  <2>3. outgoing_messages_' = <<r>>
    BY <2>1
  <2>4. Head(outgoing_messages_)' = r /\ outgoing_messages_' # <<>>
    BY <2>2, <2>3, ReportIsOldest
  <2>5. OneReport' /\ OpenReportHolds'
    BY <1>1, <2>2, <2>3, <2>4 DEF OneReport, OpenReportHolds
  <2>6. Counts'
    BY <1>1, <2>1, LimitsAreNumbers DEF IInv, Types, Counts
  <2>7. Flags'
    BY <1>1, <2>1, Zenon DEF IInv, Types, Flags
  <2>8. SilencedOnlyByPeer' /\ (silenced' => alarm_stopped')
    BY <1>1, Zenon DEF IInv, SilencedOnlyByPeer
  <2>. QED
    BY <1>1, <2>5, <2>6, <2>7, <2>8, Zenon DEF IInv, Types
<1>3. CASE ~MayReport
  BY <1>1, <1>3, SameKeeps, Zenon DEF process_alarms, handler, IInv, Types, Flags
<1>. QED
  BY <1>2, <1>3

\* What a handler changes of the alarms.
LEMMA DispatchIs ==
  ASSUME Types, NEW frames, Dispatch(frames)
  PROVE  /\ alarm_paused' \in BOOLEAN /\ alarm_stopped' \in BOOLEAN /\ silenced' \in BOOLEAN
         /\ alarm_stopped => alarm_stopped'
         /\ silenced => silenced'
         /\ silenced' => silenced \/ alarm_stopped'
         /\ alarm_stopped' /\ ~alarm_stopped =>
              \/ silenced'
              \/ alarm_status_buf = {} /\ \E c \in calls' : c.op = "answered"
<1>1. /\ alarm_paused \in BOOLEAN /\ alarm_stopped \in BOOLEAN /\ silenced \in BOOLEAN
  BY Zenon DEF Types, Flags
<1>2. CASE stop_alarm_handler(Last(frames))
  BY <1>1, <1>2 DEF stop_alarm_handler
<1>3. CASE alarm_status_report_answer_handler(Head(frames)) /\ \E c \in calls' : c.op = "answered"
  BY <1>1, <1>3 DEF alarm_status_report_answer_handler
<1>4. CASE UNCHANGED <<alarm_paused, alarm_stopped, silenced>>
  BY <1>1, <1>4
<1>. QED
  BY <1>2, <1>3, <1>4 DEF Dispatch

LEMMA LoopParts ==
  ASSUME IInv, Loop
  PROVE  \E arrived, frames :
           H!Iteration(arrived, HandlerRun(frames)) /\ Dispatch(frames)
  BY DEF Loop

LEMMA LoopKeeps == ASSUME IInv, Loop PROVE IInv'
<1>1. PICK arrived, frames : H!Iteration(arrived, HandlerRun(frames)) /\ Dispatch(frames)
  BY LoopParts
<1>2. Types /\ OneReport
  BY DEF IInv
<1>3. /\ OneReport'
      /\ ReportOpen' => ReportOpen /\ Head(outgoing_messages_)'.msg = Head(outgoing_messages_).msg
  BY <1>1, <1>2, IterationKeepsReport
<1>4. /\ alarm_paused' \in BOOLEAN /\ alarm_stopped' \in BOOLEAN /\ silenced' \in BOOLEAN
      /\ alarm_stopped => alarm_stopped'
      /\ silenced => silenced'
      /\ silenced' => silenced \/ alarm_stopped'
      /\ alarm_stopped' /\ ~alarm_stopped => silenced' \/ alarm_status_buf = {}
  BY <1>1, <1>2, DispatchIs
<1>5. /\ alarm_status_buf' = alarm_status_buf /\ since_report' = since_report
      /\ _trigger_random_alarm' = _trigger_random_alarm /\ _reset_alarm' = _reset_alarm
      /\ raced' = raced
  BY DEF Loop, flags
<1>6. Counts'
  <2>1. wait' \in {-1, 0, wait}
    BY DEF Loop, WaitAfterLoop
  <2>. QED
    BY <1>2, <1>5, <2>1, LimitsAreNumbers DEF Types, Counts
<1>7. Flags'
  BY <1>2, <1>4, <1>5, Zenon DEF Types, Flags
<1>8. OpenReportHolds'
  BY <1>3, <1>5, Zenon DEF IInv, OpenReportHolds
<1>9. SilencedOnlyByPeer' /\ (silenced' => alarm_stopped')
  BY <1>4, <1>5, Zenon DEF IInv, SilencedOnlyByPeer
<1>. QED
  BY <1>2, <1>3, <1>5, <1>6, <1>7, <1>8, <1>9, Zenon DEF IInv, Types

LEMMA KeyKeeps == ASSUME IInv, Key PROVE IInv'
<1>1. _trigger_random_alarm' \in BOOLEAN /\ _reset_alarm' \in BOOLEAN
  BY Zenon DEF Key, PressA, PressS, IInv, Types, Flags
<1>. QED
  BY <1>1, SameKeeps DEF Key, alarms, handler, history

LEMMA TickKeeps == ASSUME IInv, Tick PROVE IInv'
<1>1. /\ outgoing_messages_' = outgoing_messages_ /\ state_' = state_
  BY DEF Tick, H!Tick
<1>2. Counts'
  <2>1. since_report' \in 0 .. LongInterval + 1
    BY LimitsAreNumbers DEF Tick, IInv, Types, Counts
  <2>2. CASE wait = -1
    BY <2>1, <2>2, LimitsAreNumbers DEF Tick, Counts
  <2>3. CASE wait # -1
    <3>1. wait' = IF wait + 1 < Horizon THEN wait + 1 ELSE Horizon
      BY <2>3 DEF Tick, H!Elapsed, H!Lesser
    <3>. QED
      BY <2>1, <2>3, <3>1, LimitsAreNumbers DEF IInv, Types, Counts
  <2>. QED
    BY <2>2, <2>3
<1>3. /\ alarm_status_buf' = alarm_status_buf /\ alarm_paused' = alarm_paused
      /\ alarm_stopped' = alarm_stopped /\ silenced' = silenced /\ raced' = raced
      /\ _trigger_random_alarm' = _trigger_random_alarm /\ _reset_alarm' = _reset_alarm
  BY DEF Tick, flags
<1>4. Flags'
  BY <1>3, Zenon DEF IInv, Types, Flags
<1>5. OneReport' /\ OpenReportHolds'
  BY <1>1, <1>3, Zenon DEF IInv, OneReport, OpenReportHolds, ReportOpen
<1>6. SilencedOnlyByPeer' /\ (silenced' => alarm_stopped')
  BY <1>3, Zenon DEF IInv, SilencedOnlyByPeer
<1>. QED
  BY <1>2, <1>3, <1>4, <1>5, <1>6, Zenon DEF IInv, Types

LEMMA StepKeeps == IInv /\ [Next]_vars => IInv'
<1>. SUFFICES ASSUME IInv, [Next]_vars PROVE IInv'
  OBVIOUS
<1>1. CASE UNCHANGED vars
  <2>1. _trigger_random_alarm' \in BOOLEAN /\ _reset_alarm' \in BOOLEAN
    BY <1>1, Zenon DEF vars, flags, IInv, Types, Flags
  <2>. QED
    BY <1>1, <2>1, SameKeeps DEF vars, alarms, handler, history
<1>. QED
  BY <1>1, TriggerKeeps, ResetKeeps, ReportKeeps, LoopKeeps, KeyKeeps, TickKeeps DEF Next

-----------------------------------------------------------------------------
(* The theorems                                                            *)

\* The invariant that the other results rest on.
THEOREM AlarmInvariant == Spec => []IInv
<1>. QED
  BY InitIInv, StepKeeps, PTL DEF Spec

\* The alarm bits are alarms, and process_alarms never has two reports open.
THEOREM TypesAlwaysHold == Spec => []TypeOK
<1>1. IInv => TypeOK
  <2>. SUFFICES ASSUME IInv PROVE TypeOK
    OBVIOUS
  <2>1. outgoing_messages_ \in {<<>>} \cup [1..1 -> H!OutgoingQueueItem]
    BY DEF IInv, OneReport, Report
  <2>2. {alarm_paused, alarm_stopped, _trigger_random_alarm, _reset_alarm} \subseteq BOOLEAN
    BY Zenon DEF IInv, Types, Flags
  <2>. QED
    BY <2>1, <2>2 DEF IInv, Types, Counts, TypeOK
<1>. QED
  BY <1>1, AlarmInvariant, PTL

\* Active alarms are silent only because the peer stopped them: no confirmation,
\* reset, timeout or late answer silences them.
THEOREM AlarmsAreSilencedByPeer == Spec => []SilencedOnlyByPeer
<1>1. IInv => SilencedOnlyByPeer
  BY DEF IInv
<1>. QED
  BY <1>1, AlarmInvariant, PTL

\* A confirmation ends the reports only if its report listed no alarm, unless
\* alarms were reset in between.
THEOREM ReportsEndWhenToldSo == Spec => StopFollowsEmptyReport
<1>. DEFINE EndsRightly ==
       pc = "loop" /\ alarm_stopped' /\ ~alarm_stopped /\ silenced' = silenced =>
         Head(outgoing_messages_).msg = {} \/ raced
<1>1. IInv /\ [Next]_vars => [EndsRightly]_vars
  <2>. SUFFICES ASSUME IInv, [Next]_vars, pc = "loop", alarm_stopped', ~alarm_stopped,
                       silenced' = silenced
                PROVE  Head(outgoing_messages_).msg = {} \/ raced
    OBVIOUS
  <2>1. CASE Loop
    <3>1. PICK arrived, frames : H!Iteration(arrived, HandlerRun(frames)) /\ Dispatch(frames)
      BY <2>1, LoopParts
    <3>2. Types /\ OneReport
      BY DEF IInv
    <3>3. alarm_status_buf = {} /\ \E c \in calls' : c.op = "answered"
      BY <3>1, <3>2, DispatchIs DEF IInv
    <3>4. ReportOpen
      BY <3>1, <3>2, <3>3, IterationKeepsReport
    <3>. QED
      BY <3>3, <3>4 DEF IInv, OpenReportHolds
  <2>2. CASE ~Loop
    BY <2>2 DEF Next, Trigger, Reset, process_alarms, Block, Key, Tick, vars, alarms
  <2>. QED
    BY <2>1, <2>2
<1>. QED
  BY <1>1, AlarmInvariant, PTL DEF Spec, StopFollowsEmptyReport

-----------------------------------------------------------------------------
(* How long an alarm waits                                                 *)

\* What waits to be reported is active and not silenced.
WatchedIsActive ==
  wait >= 0 => Watched \in alarm_status_buf /\ ~alarm_stopped /\ ~silenced

\* The handler's intervals are the ones it was given, and its deadlines are within them.
Deadlines ==
  /\ cooldown_interval_ = Cooldown /\ answer_timeout_interval_ = AnswerTimeout
  /\ cooldown_left \in -1 .. Cooldown
  /\ answer_left \in -1 .. AnswerTimeout
  /\ retry_left \in -1 .. 0

\* A report has one try, and is awaited when it is used.
OneTry ==
  /\ state_ \in {"IDLE", "WAITING_FOR_ANSWER"}
  /\ ReportOpen => Head(outgoing_messages_).number_of_retries
                     = IF state_ = "IDLE" THEN 1 ELSE 0

Listed == Watched \in Head(outgoing_messages_).msg

\* The clock may move: loop() has run since it did.
RoundOver == pc = "trigger" /\ ~due

\* The cooldown is over when the wait is at `bound`, at the latest.
CoolBy(bound) == cooldown_left > 0 => wait <= bound - cooldown_left

\* The wait began after the older report was queued.
WaitsSinceReport == wait <= since_report \/ since_report = LongInterval + 1

\* No report was open and none is yet: process_alarms looks every round.
HurriedUnlisted ==
  /\ ~alarm_paused
  /\ wait <= ShortInterval + 1 /\ wait <= since_report /\ CoolBy(Cooldown)
  /\ pc = "loop" \/ RoundOver => since_report <= ShortInterval

\* The alarm is in the report that is queued, which is written when it is cool.
HurriedListed ==
  /\ state_ = "IDLE" /\ Listed
  /\ wait <= LaterOf(ShortInterval + 1, Cooldown) /\ CoolBy(Cooldown)
  /\ RoundOver => cooldown_left > 0

\* An older report, without the alarm, is queued.
OlderUnwritten ==
  /\ wait <= Cooldown /\ CoolBy(Cooldown) /\ WaitsSinceReport
  /\ RoundOver => cooldown_left > 0

\* A report that was written before is awaited.
OlderAwaited ==
  /\ wait <= Cooldown + AnswerTimeout - answer_left
  /\ CoolBy(2 * Cooldown) /\ WaitsSinceReport
  /\ RoundOver => answer_left >= 0

\* It is answered or given up; the next comes after the interval, long if paused.
OlderGone ==
  /\ wait <= LongestWait /\ CoolBy(2 * Cooldown) /\ WaitsSinceReport
  /\ pc = "loop" => since_report <= LongInterval
  /\ RoundOver => \/ since_report <= LongInterval
                  \/ wait <= Cooldown + AnswerTimeout + 1

\* The alarm is in the report that is queued after the older one.
LateListed ==
  /\ wait <= LongestWait /\ CoolBy(2 * Cooldown)
  /\ RoundOver => cooldown_left > 0

\* How far the wait has come, by where the report is.
OnTime ==
  wait >= 0 =>
    /\ hurried /\ ~ReportOpen => HurriedUnlisted
    /\ hurried /\ ReportOpen => HurriedListed
    /\ ~hurried /\ ReportOpen /\ state_ = "WAITING_FOR_ANSWER" => OlderAwaited
    /\ ~hurried /\ ReportOpen /\ state_ = "IDLE" /\ ~Listed => OlderUnwritten
    /\ ~hurried /\ ReportOpen /\ state_ = "IDLE" /\ Listed => LateListed
    /\ ~hurried /\ ~ReportOpen => OlderGone

TimeInv == WatchedIsActive /\ Deadlines /\ OneTry /\ OnTime

-----------------------------------------------------------------------------
(* What an iteration does to the report and to the deadlines               *)

\* The message handler answered a request, which starts the cooldown again.
SentAnswer == H!Answering \in calls'
CoolAfter == IF SentAnswer THEN Cooldown ELSE cooldown_left

\* The iteration writes no report.
NoRequest == \A c \in calls' : c.op # "request"

\* No report is written or ended.
Rested ==
  /\ state_ = "IDLE" /\ state_' = "IDLE"
  /\ outgoing_messages_' = outgoing_messages_
  /\ ReportOpen => CoolAfter > 0
  /\ cooldown_left' = CoolAfter /\ answer_left' = answer_left /\ retry_left' = retry_left
  /\ NoRequest /\ \A c \in calls' : c.op # "answered"

\* The report is written and now awaited.
Wrote ==
  /\ state_ = "IDLE" /\ state_' = "WAITING_FOR_ANSWER" /\ ReportOpen /\ ReportOpen'
  /\ Head(outgoing_messages_)'.number_of_retries = 0
  /\ Head(outgoing_messages_)'.msg = Head(outgoing_messages_).msg
  /\ cooldown_left' = Cooldown /\ answer_left' = AnswerTimeout /\ retry_left' = 0
  /\ \E c \in calls' : c.op = "request" /\ c.msg = Head(outgoing_messages_).msg
  /\ \A c \in calls' : c.op # "answered"

\* The report is answered or given up.
Finished ==
  /\ state_ = "WAITING_FOR_ANSWER" /\ state_' = "IDLE" /\ ReportOpen /\ ~ReportOpen'
  /\ cooldown_left' = cooldown_left /\ answer_left' = answer_left /\ retry_left' = 0
  /\ NoRequest /\ ~SentAnswer

\* The answer is still awaited.
Waited ==
  /\ state_ = "WAITING_FOR_ANSWER" /\ state_' = state_ /\ answer_left >= 0
  /\ outgoing_messages_' = outgoing_messages_
  /\ cooldown_left' = cooldown_left /\ answer_left' = answer_left /\ retry_left' = retry_left
  /\ calls' = {}

\* No time passes in an iteration.
LEMMA DeadlineStays ==
  ASSUME NEW n \in Int, n >= -1
  PROVE  H!Left(n, 0) = n
BY DEF H!Left

\* Every iteration is one of the four: a report has one try, so none is tried again or
\* dropped.
LEMMA LoopOutcome ==
  ASSUME OneReport, Deadlines, OneTry, NEW arrived, NEW frames,
         H!Iteration(arrived, HandlerRun(frames))
  PROVE  /\ Rested \/ Wrote \/ Finished \/ Waited
         /\ cooldown_interval_' = cooldown_interval_
         /\ answer_timeout_interval_' = answer_timeout_interval_
<1> DEFINE run == HandlerRun(frames)
           q == outgoing_messages_
<1>1. run.pushed = <<>> /\ run.took = 0 /\ run.answered \in BOOLEAN
  BY DEF HandlerRun
<1>2. q \o run.pushed = q
  BY <1>1, ReportIsOldest DEF OneReport
<1>3. /\ Cooldown \in Nat /\ AnswerTimeout \in Nat
      /\ cooldown_left \in Int /\ cooldown_left >= -1
      /\ answer_left \in Int /\ answer_left >= -1
      /\ retry_left \in Int /\ retry_left >= -1 /\ retry_left <= 0
  BY LimitsAreNumbers DEF Deadlines
<1>4. ASSUME q # <<>>
      PROVE  \E r \in Report :
               /\ q = <<r>> /\ Head(q) = r /\ Tail(q) = <<>> /\ Tail(q) \o run.pushed = <<>>
               /\ r.no_answer = FALSE /\ r.retry_interval = 0
               /\ r.number_of_retries = IF state_ = "IDLE" THEN 1 ELSE 0
  <2>1. PICK r \in Report : q = <<r>>
    BY <1>4 DEF OneReport
  <2>2. r.retry_interval = 0 /\ r.no_answer = FALSE
    BY DEF Report, H!OutgoingQueueItem
  <2>3. QED
    BY <1>1, <2>1, <2>2, ReportIsOldest, <1>4 DEF OneTry, ReportOpen
<1>5. CASE H!IdleIteration(arrived, run)
  <2> DEFINE cooldown == H!CooldownAfter(run)
  <2>1. /\ state_ = "IDLE" /\ UNCHANGED H!settings
        /\ \/ H!Rest(q, cooldown, run)
           \/ \E e \in 0 .. 0 : H!Transmit(q, cooldown, run, e)
           \/ \E e \in 0 .. 0 : H!Refuse(q, cooldown, run, e)
           \/ H!Discard(q, cooldown, run)
    BY <1>2, <1>5 DEF H!IdleIteration
  <2>2. cooldown = IF run.answered THEN Cooldown ELSE cooldown_left
    BY <1>1, <1>3 DEF H!CooldownAfter, Deadlines
  <2> HIDE DEF cooldown
  <2>3. CASE H!Rest(q, cooldown, run)
    <3>1. /\ calls' = H!SeenCalls(run) /\ q' = q /\ state_' = state_
          /\ ~H!Ready(q, cooldown)
          /\ cooldown_left' = H!Left(cooldown, 0) /\ answer_left' = H!Left(answer_left, 0)
          /\ retry_left' = H!Left(retry_left, 0)
      BY <1>1, <2>3 DEF H!Rest
    <3>2. /\ SentAnswer <=> run.answered
          /\ \A c \in calls' : c.op = "answer"
      BY <3>1 DEF H!SeenCalls, H!Answering, H!Call, SentAnswer
    <3>3. cooldown = CoolAfter /\ cooldown \in Int /\ cooldown >= -1
      BY <2>2, <3>2, <1>3 DEF CoolAfter
    <3>4. cooldown_left' = CoolAfter /\ answer_left' = answer_left /\ retry_left' = retry_left
      BY <3>1, <3>3, <1>3, DeadlineStays
    <3>5. ReportOpen => CoolAfter > 0
      BY <3>1, <3>3, <1>3 DEF H!Ready, ReportOpen
    <3>6. Rested
      BY <2>1, <3>1, <3>2, <3>4, <3>5 DEF Rested, NoRequest
    <3>7. QED
      BY <2>1, <3>6 DEF H!settings
  <2>4. ASSUME NEW e \in 0 .. 0, H!Transmit(q, cooldown, run, e)
        PROVE  Wrote
    <3>1. q # <<>>
      BY <2>4 DEF H!Transmit, H!Ready
    <3>2. PICK r \in Report :
               /\ q = <<r>> /\ Head(q) = r /\ Tail(q) = <<>>
               /\ r.no_answer = FALSE /\ r.retry_interval = 0
               /\ r.number_of_retries = 1
      BY <3>1, <1>4, <2>1
    <3>3. run.took + e = 0
      BY <1>1
    <3>4. /\ q' = H!UseTry(q) /\ state_' = "WAITING_FOR_ANSWER"
          /\ answer_left' = H!Left(answer_timeout_interval_, 0)
          /\ retry_left' = H!Left(0, 0) /\ cooldown_left' = cooldown_interval_
          /\ calls' = H!SeenCalls(run) \cup {H!Call("request", r.msg)}
      BY <2>4, <3>2, <3>3 DEF H!Transmit
    <3>5. answer_left' = AnswerTimeout /\ retry_left' = 0 /\ cooldown_left' = Cooldown
      BY <3>4, <1>3, DeadlineStays DEF Deadlines
    <3>6. q' = <<[r EXCEPT !.number_of_retries = @ - 1]>>
      BY <3>2, <3>4 DEF H!UseTry
    <3>7. /\ q' # <<>> /\ Head(q') = [r EXCEPT !.number_of_retries = @ - 1]
      BY <3>6
    <3>8. /\ Head(q').number_of_retries = 0 /\ Head(q').msg = r.msg
      <4>1. r \in H!OutgoingQueueItem
        BY DEF Report
      <4>2. QED
        BY <4>1, <3>2, <3>7 DEF H!OutgoingQueueItem
    <3>9. /\ \E c \in calls' : c.op = "request" /\ c.msg = r.msg
          /\ \A c \in calls' : c.op # "answered"
      <4>1. H!Call("request", r.msg) \in calls'
        BY <3>4
      <4>2. H!Call("request", r.msg).op = "request" /\ H!Call("request", r.msg).msg = r.msg
        BY DEF H!Call
      <4>3. \A c \in calls' : c.op \in {"answer", "request"}
        BY <3>4, <4>2 DEF H!SeenCalls, H!Answering, H!Call
      <4>4. QED
        BY <4>1, <4>2, <4>3
    <3>10. QED
      BY <2>1, <3>1, <3>2, <3>4, <3>5, <3>7, <3>8, <3>9 DEF Wrote, ReportOpen
  <2>5. ASSUME NEW e \in 0 .. 0, H!Refuse(q, cooldown, run, e)
        PROVE  FALSE
    BY <2>5 DEF H!Refuse
  <2>6. ASSUME H!Discard(q, cooldown, run)
        PROVE  FALSE
    <3>1. q # <<>> /\ Head(q).number_of_retries = 0
      BY <2>6 DEF H!Discard, H!Ready
    <3>2. Head(q).number_of_retries = 1
      BY <3>1, <2>1, <1>4
    <3>3. QED
      BY <3>1, <3>2
  <2>7. QED
    BY <2>1, <2>3, <2>4, <2>5, <2>6 DEF H!settings
<1>6. ASSUME NEW op, op \in {"expire", "answered"}, state_ = "WAITING_FOR_ANSWER", H!Finish(run, op)
      PROVE  Finished /\ UNCHANGED <<cooldown_interval_, answer_timeout_interval_>>
  <2>1. q # <<>>
    BY <1>6 DEF OneReport
  <2>2. /\ q' = <<>> /\ state_' = "IDLE" /\ retry_left' = H!Left(0, 0)
        /\ cooldown_left' = H!Left(cooldown_left, 0) /\ answer_left' = H!Left(answer_left, 0)
        /\ calls' = {H!Call(op, last_message_type_)}
        /\ UNCHANGED H!settings
    BY <2>1, <1>1, <1>4, <1>6 DEF H!Finish
  <2>3. retry_left' = 0 /\ cooldown_left' = cooldown_left /\ answer_left' = answer_left
    BY <2>2, <1>3, DeadlineStays
  <2>4. \A c \in calls' : c.op = op
    BY <2>2 DEF H!Call
  <2>5. ~SentAnswer /\ NoRequest
    BY <2>4, <1>6 DEF H!Answering, H!Call, SentAnswer, NoRequest
  <2>6. QED
    BY <1>6, <2>1, <2>2, <2>3, <2>5 DEF Finished, ReportOpen, H!settings
<1>7. CASE H!ExpireIteration(arrived, run)
  BY <1>6, <1>7 DEF H!ExpireIteration
<1>8. CASE H!AnswerIteration(arrived, run)
  BY <1>6, <1>8 DEF H!AnswerIteration
<1>9. CASE H!LoopRetry(arrived)
  <2>1. q # <<>> /\ state_ = "WAITING_FOR_ANSWER" /\ Head(q).number_of_retries # 0
    BY <1>9 DEF H!LoopRetry, OneReport
  <2>2. QED
    BY <2>1, <1>4
<1>10. CASE H!LoopWait
  BY <1>10 DEF H!LoopWait, Waited, H!settings, H!timers
<1>11. QED
  BY <1>5, <1>7, <1>8, <1>9, <1>10 DEF H!Iteration

-----------------------------------------------------------------------------
(* The wait for a report, block by block                                   *)

\* The two bounds, and what they are the later of.
LEMMA Bounds ==
  /\ LaterOf(ShortInterval + 1, Cooldown) \in Nat
  /\ LaterOf(ShortInterval + 1, Cooldown) >= ShortInterval + 1
  /\ LaterOf(ShortInterval + 1, Cooldown) >= Cooldown
  /\ LongestWait \in Nat
  /\ LongestWait >= LongInterval + 1
  /\ LongestWait >= Cooldown + AnswerTimeout + 2
  /\ LongestWait >= 2 * Cooldown
BY LimitsAreNumbers DEF LaterOf, LongestWait

\* The numbers of the state.
LEMMA Numbers ==
  ASSUME IInv, Deadlines
  PROVE  /\ wait \in Int /\ wait >= -1 /\ since_report \in Nat
         /\ since_report <= LongInterval + 1
         /\ cooldown_left \in Int /\ cooldown_left >= -1 /\ cooldown_left <= Cooldown
         /\ answer_left \in Int /\ answer_left >= -1 /\ answer_left <= AnswerTimeout
         /\ retry_left \in Int /\ retry_left >= -1 /\ retry_left <= 0
BY LimitsAreNumbers DEF IInv, Types, Counts, Deadlines

\* No alarm waits at first.
LEMMA InitTimes == Init => TimeInv
<1> SUFFICES ASSUME Init PROVE TimeInv
  OBVIOUS
<1>1. wait = -1 /\ outgoing_messages_ = <<>> /\ state_ = "IDLE"
  BY DEF Init, H!Init
<1>2. Deadlines
  BY LimitsAreNumbers DEF Init, H!Init, Deadlines
<1>3. OneTry
  BY <1>1 DEF OneTry, ReportOpen
<1>4. WatchedIsActive /\ OnTime
  BY <1>1 DEF WatchedIsActive, OnTime
<1>5. QED
  BY <1>2, <1>3, <1>4 DEF TimeInv

\* A block that leaves the handler alone.
LEMMA HandlerStays ==
  ASSUME TimeInv, UNCHANGED handler
  PROVE  /\ Deadlines' /\ OneTry'
         /\ (ReportOpen' <=> ReportOpen) /\ (Listed' <=> Listed) /\ state_' = state_
         /\ cooldown_left' = cooldown_left /\ answer_left' = answer_left
<1>1. /\ state_' = state_ /\ outgoing_messages_' = outgoing_messages_
      /\ answer_timeout_interval_' = answer_timeout_interval_
      /\ cooldown_interval_' = cooldown_interval_
      /\ cooldown_left' = cooldown_left /\ answer_left' = answer_left
      /\ retry_left' = retry_left
  BY DEF handler
<1>2. QED
  BY <1>1 DEF TimeInv, Deadlines, OneTry, ReportOpen, Listed

\* Between the blocks of a round, a wait that goes on, or ends.
LEMMA WaitStays ==
  ASSUME TimeInv, IInv, UNCHANGED handler, UNCHANGED <<since_report, due>>,
         wait' \in {wait, -1}, hurried' = hurried,
         alarm_paused' = alarm_paused \/ alarm_paused' = FALSE,
         pc' # "loop", pc' = "trigger" => pc = "trigger"
  PROVE  OnTime'
<1>1. /\ (ReportOpen' <=> ReportOpen) /\ (Listed' <=> Listed) /\ state_' = state_
      /\ cooldown_left' = cooldown_left /\ answer_left' = answer_left
  BY HandlerStays
<1>2. RoundOver' => RoundOver
  BY DEF RoundOver
<1>3. \A n : CoolBy(n) => (wait' = wait => CoolBy(n)')
  BY <1>1 DEF CoolBy
<1>4. QED
  BY <1>1, <1>2, <1>3 DEF TimeInv, OnTime, HurriedUnlisted, HurriedListed, OlderUnwritten,
     OlderAwaited, OlderGone, LateListed, WaitsSinceReport

\* The block of preloop() that starts an alarm: a wait begins where the report is.
LEMMA TriggerTimes == ASSUME TimeInv, IInv, Trigger PROVE TimeInv'
<1>1. UNCHANGED handler /\ UNCHANGED <<since_report, due>> /\ pc' = "reset"
  BY DEF Trigger, Block
<1>2. Deadlines' /\ OneTry'
  BY <1>1, HandlerStays
<1>3. CASE ~_trigger_random_alarm
  <2>1. UNCHANGED <<alarm_status_buf, alarm_paused, alarm_stopped, wait, hurried, silenced>>
    BY <1>3 DEF Trigger
  <2>2. OnTime'
    BY <1>1, <2>1, WaitStays
  <2>3. WatchedIsActive'
    BY <2>1 DEF TimeInv, WatchedIsActive
  <2>4. QED
    BY <1>2, <2>2, <2>3 DEF TimeInv
<1>4. CASE _trigger_random_alarm
  <2>1. PICK d \in Draw :
          LET r == HON_ALARM_COUNT - d
          IN  /\ start_alarm(r)
              /\ wait' = IF r = Watched /\ wait = -1 THEN 0 ELSE wait
              /\ hurried' = IF r = Watched /\ wait = -1 THEN ~ReportOpen ELSE hurried
              /\ silenced' = (silenced /\ r \notin Alarm)
    BY <1>4 DEF Trigger
  <2> DEFINE r == HON_ALARM_COUNT - d
  <2>2. r \in Nat /\ (r >= HON_ALARM_COUNT <=> r \notin Alarm) /\ Watched \in Alarm
    BY AlarmsAssumption DEF Alarm
  <2>3. /\ start_alarm(r)
        /\ wait' = IF r = Watched /\ wait = -1 THEN 0 ELSE wait
        /\ hurried' = IF r = Watched /\ wait = -1 THEN ~ReportOpen ELSE hurried
        /\ silenced' = (silenced /\ r \notin Alarm)
    BY <2>1
  <2> HIDE DEF r
  <2>4. CASE r \in Alarm
    <3>1. /\ alarm_status_buf' = alarm_status_buf \cup {r} /\ alarm_paused' = FALSE
          /\ alarm_stopped' = FALSE /\ ~silenced'
      BY <2>2, <2>3, <2>4 DEF start_alarm
    <3>2. WatchedIsActive'
      BY <3>1, <2>3 DEF TimeInv, WatchedIsActive
    <3>3. CASE ~(r = Watched /\ wait = -1)
      <4>1. wait' = wait /\ hurried' = hurried
        BY <2>3, <3>3
      <4>2. OnTime'
        BY <1>1, <3>1, <4>1, WaitStays
      <4>3. QED
        BY <1>2, <3>2, <4>2 DEF TimeInv
    <3>4. CASE r = Watched /\ wait = -1
      <4>1. wait' = 0 /\ hurried' = ~ReportOpen
        BY <2>3, <3>4
      <4>2. /\ (ReportOpen' <=> ReportOpen) /\ state_' = state_
            /\ cooldown_left' = cooldown_left /\ answer_left' = answer_left
            /\ since_report' = since_report
        BY <1>1, HandlerStays
      <4>3. \A n \in Int : n >= Cooldown => CoolBy(n)'
        BY <4>1, <4>2, Numbers, LimitsAreNumbers DEF CoolBy, TimeInv
      <4>4. CoolBy(Cooldown)' /\ CoolBy(2 * Cooldown)'
        BY <4>3, LimitsAreNumbers
      <4>5. ~RoundOver' /\ pc' # "loop"
        BY <1>1 DEF RoundOver
      <4>6. WaitsSinceReport' /\ since_report' >= 0
        BY <4>1, <4>2, Numbers DEF WaitsSinceReport, TimeInv
      <4>7. HurriedUnlisted'
        BY <3>1, <4>1, <4>4, <4>5, <4>6, LimitsAreNumbers DEF HurriedUnlisted
      <4>8. OlderUnwritten' /\ OlderGone' /\ LateListed'
        BY <4>1, <4>4, <4>5, <4>6, LimitsAreNumbers, Bounds
           DEF OlderUnwritten, OlderGone, LateListed
      <4>9. OlderAwaited'
        BY <4>1, <4>2, <4>4, <4>5, <4>6, LimitsAreNumbers, Numbers DEF OlderAwaited, TimeInv
      <4>10. OnTime'
        BY <4>1, <4>2, <4>7, <4>8, <4>9 DEF OnTime
      <4>11. QED
        BY <1>2, <3>2, <4>10 DEF TimeInv
    <3>5. QED
      BY <3>3, <3>4
  <2>5. CASE r \notin Alarm
    <3>1. UNCHANGED <<alarm_status_buf, alarm_paused, alarm_stopped, wait, hurried>>
      BY <2>2, <2>3, <2>5 DEF start_alarm
    <3>2. silenced' => silenced
      BY <2>3
    <3>3. OnTime'
      BY <1>1, <3>1, WaitStays
    <3>4. WatchedIsActive'
      BY <3>1, <3>2 DEF TimeInv, WatchedIsActive
    <3>5. QED
      BY <1>2, <3>3, <3>4 DEF TimeInv
  <2>6. QED
    BY <2>4, <2>5
<1>5. QED
  BY <1>3, <1>4

\* The block that resets alarms.
LEMMA ResetTimes == ASSUME TimeInv, IInv, Reset PROVE TimeInv'
<1>1. /\ UNCHANGED handler /\ UNCHANGED <<since_report, due, hurried, silenced, alarm_stopped>>
      /\ pc' = "report"
  BY DEF Reset, Block
<1>2. Deadlines' /\ OneTry'
  BY <1>1, HandlerStays
<1>3. /\ wait' = wait \/ wait' = -1
      /\ wait' >= 0 /\ wait' = wait /\ Watched \in alarm_status_buf => Watched \in alarm_status_buf'
      /\ alarm_paused' = alarm_paused \/ alarm_paused' = FALSE
  BY DEF Reset, reset_alarms
<1>4. OnTime'
  BY <1>1, <1>3, WaitStays
<1>5. WatchedIsActive'
  BY <1>1, <1>3 DEF TimeInv, WatchedIsActive
<1>6. QED
  BY <1>2, <1>4, <1>5 DEF TimeInv

\* Keys, which only set flags, and steps of nothing.
LEMMA KeyTimes == ASSUME TimeInv, IInv, Key \/ UNCHANGED vars PROVE TimeInv'
<1>1. /\ UNCHANGED handler /\ UNCHANGED <<alarms, pc, due, history>>
  BY DEF Key, vars
<1>2. /\ wait' = wait /\ hurried' = hurried /\ silenced' = silenced /\ pc' = pc
      /\ alarm_status_buf' = alarm_status_buf /\ alarm_stopped' = alarm_stopped
      /\ alarm_paused' = alarm_paused /\ since_report' = since_report /\ due' = due
  BY <1>1 DEF alarms, history
<1>3. Deadlines' /\ OneTry'
  BY <1>1, HandlerStays
<1>4. WatchedIsActive'
  BY <1>2 DEF TimeInv, WatchedIsActive
<1>5. /\ (ReportOpen' <=> ReportOpen) /\ (Listed' <=> Listed) /\ state_' = state_
      /\ cooldown_left' = cooldown_left /\ answer_left' = answer_left
  BY <1>1, HandlerStays
<1>6. OnTime'
  BY <1>2, <1>5 DEF TimeInv, OnTime, HurriedUnlisted, HurriedListed, OlderUnwritten,
     OlderAwaited, OlderGone, LateListed, WaitsSinceReport, CoolBy, RoundOver
<1>7. QED
  BY <1>3, <1>4, <1>6 DEF TimeInv

\* process_alarms queues a report that lists every alarm, or it is too early.
LEMMA ReportTimes == ASSUME TimeInv, IInv, process_alarms PROVE TimeInv'
<1>1. /\ UNCHANGED <<due, hurried, wait, silenced, alarm_stopped, alarm_status_buf>>
      /\ pc = "report" /\ pc' = "loop"
  BY DEF process_alarms, Block
<1>2. WatchedIsActive'
  BY <1>1 DEF TimeInv, WatchedIsActive
<1>3. ~RoundOver'
  BY <1>1 DEF RoundOver
<1>4. /\ ShortInterval \in Nat /\ LongInterval \in Nat /\ Cooldown \in Nat
      /\ ShortInterval < LongInterval
      /\ wait \in Int /\ since_report \in Nat /\ cooldown_left \in Int
  BY LimitsAreNumbers, IntervalsAssumption, Numbers DEF TimeInv
<1>5. CASE MayReport
  <2> DEFINE r == H!Request(alarm_status_buf, 0, 0)
  <2>1. /\ outgoing_messages_ = <<>> /\ outgoing_messages_' = Append(outgoing_messages_, r)
        /\ state_ # "WAITING_FOR_ANSWER"
        /\ UNCHANGED <<state_, answer_timeout_interval_, cooldown_interval_, cooldown_left,
                       answer_left, retry_left>>
    BY <1>5 DEF process_alarms, MayReport, H!send_message, H!Enqueue, H!settings, H!timers
  <2>2. r.msg = alarm_status_buf /\ r.number_of_retries = 1
    BY DEF H!Request, H!Lesser
  <2> HIDE DEF r
  <2>3. outgoing_messages_' # <<>> /\ Head(outgoing_messages_') = r
    BY <2>1
  <2>4. state_ = "IDLE"
    BY <2>1 DEF TimeInv, OneTry
  <2>5. Deadlines' /\ OneTry'
    BY <2>1, <2>2, <2>3, <2>4 DEF TimeInv, Deadlines, OneTry
  <2>6. ~ReportOpen /\ ReportOpen'
    BY <2>1, <2>3 DEF ReportOpen
  <2>7. \A n : CoolBy(n) => CoolBy(n)'
    BY <1>1, <2>1 DEF CoolBy
  <2>8. ASSUME wait >= 0 PROVE Listed'
    BY <2>2, <2>3, <2>8 DEF TimeInv, WatchedIsActive, Listed
  <2>9. ASSUME wait >= 0, hurried PROVE HurriedListed'
    <3>1. HurriedUnlisted
      BY <2>6, <2>9 DEF TimeInv, OnTime
    <3>2. QED
      BY <3>1, <1>1, <1>3, <1>4, <2>1, <2>4, <2>7, <2>8, <2>9, Bounds
         DEF HurriedUnlisted, HurriedListed
  <2>10. ASSUME wait >= 0, ~hurried PROVE LateListed'
    <3>1. OlderGone
      BY <2>6, <2>10 DEF TimeInv, OnTime
    <3>2. QED
      BY <3>1, <1>1, <1>3, <2>7 DEF OlderGone, LateListed
  <2>11. OnTime'
    BY <1>1, <2>1, <2>4, <2>6, <2>8, <2>9, <2>10 DEF OnTime
  <2>12. QED
    BY <1>2, <2>5, <2>11 DEF TimeInv
<1>6. CASE ~MayReport
  <2>1. UNCHANGED handler /\ UNCHANGED <<alarm_paused, since_report>>
    BY <1>6 DEF process_alarms
  <2>2. /\ Deadlines' /\ OneTry'
        /\ (ReportOpen' <=> ReportOpen) /\ (Listed' <=> Listed) /\ state_' = state_
        /\ cooldown_left' = cooldown_left /\ answer_left' = answer_left
    BY <2>1, HandlerStays
  <2>3. ASSUME wait >= 0, ~ReportOpen
        PROVE  since_report <= IF alarm_paused THEN LongInterval ELSE ShortInterval
    BY <2>3, <1>4, <1>6 DEF MayReport, ReportOpen, TimeInv, WatchedIsActive, IInv, OneReport
  <2>4. \A n : CoolBy(n) => CoolBy(n)'
    BY <1>1, <2>2 DEF CoolBy
  <2>5. WaitsSinceReport => WaitsSinceReport'
    BY <1>1, <2>1 DEF WaitsSinceReport
  <2>6. ASSUME wait >= 0, hurried, ~ReportOpen PROVE HurriedUnlisted'
    BY <1>1, <1>4, <2>1, <2>3, <2>4, <2>6 DEF TimeInv, OnTime, HurriedUnlisted
  <2>7. ASSUME wait >= 0, ~hurried, ~ReportOpen PROVE OlderGone'
    BY <1>1, <1>3, <1>4, <2>1, <2>3, <2>4, <2>5, <2>7 DEF TimeInv, OnTime, OlderGone
  <2>8. ASSUME wait >= 0, ReportOpen
        PROVE  /\ HurriedListed => HurriedListed'
               /\ OlderUnwritten => OlderUnwritten'
               /\ OlderAwaited => OlderAwaited'
               /\ LateListed => LateListed'
    BY <1>1, <1>3, <2>1, <2>2, <2>4, <2>5
       DEF HurriedListed, OlderUnwritten, OlderAwaited, LateListed
  <2>9. OnTime'
    <3>1. wait' = wait /\ hurried' = hurried
      BY <1>1
    <3>2. OnTime
      BY DEF TimeInv
    <3>3. QED
      BY <2>2, <2>6, <2>7, <2>8, <3>1, <3>2 DEF OnTime
  <2>10. QED
    BY <1>2, <2>2, <2>9 DEF TimeInv
<1>7. QED
  BY <1>5, <1>6

\* The clock moves after a whole round: what the round could do, it did.
LEMMA TickTimes == ASSUME TimeInv, IInv, Tick PROVE TimeInv'
<1>1. /\ UNCHANGED <<alarm_status_buf, alarm_paused, alarm_stopped, hurried, silenced>>
      /\ pc = "trigger" /\ pc' = pc /\ ~due /\ due'
      /\ RoundOver /\ ~RoundOver' /\ pc' # "loop"
  BY DEF Tick, RoundOver
<1>2. /\ UNCHANGED <<state_, outgoing_messages_, answer_timeout_interval_, cooldown_interval_>>
      /\ cooldown_left' = H!Left(cooldown_left, 1) /\ answer_left' = H!Left(answer_left, 1)
      /\ retry_left' = H!Left(retry_left, 1)
  BY DEF Tick, H!Tick, H!settings
<1>3. /\ ShortInterval \in Nat /\ LongInterval \in Nat /\ Cooldown \in Nat
      /\ AnswerTimeout \in Nat /\ Horizon \in Nat /\ ShortInterval < LongInterval
  BY LimitsAreNumbers, IntervalsAssumption
<1>4. /\ wait \in Int /\ wait >= -1 /\ since_report \in Nat
      /\ since_report <= LongInterval + 1
      /\ cooldown_left \in Int /\ cooldown_left >= -1 /\ cooldown_left <= Cooldown
      /\ answer_left \in Int /\ answer_left >= -1 /\ answer_left <= AnswerTimeout
      /\ retry_left \in Int /\ retry_left >= -1 /\ retry_left <= 0
  BY Numbers DEF TimeInv
<1>5. /\ cooldown_left' = IF cooldown_left >= 0 THEN cooldown_left - 1 ELSE -1
      /\ answer_left' = IF answer_left >= 0 THEN answer_left - 1 ELSE -1
      /\ retry_left' = -1
  BY <1>2, <1>4 DEF H!Left
<1>6. Deadlines'
  BY <1>2, <1>3, <1>4, <1>5 DEF TimeInv, Deadlines
<1>7. OneTry' /\ (ReportOpen' <=> ReportOpen) /\ (Listed' <=> Listed)
  BY <1>2 DEF TimeInv, OneTry, ReportOpen, Listed
<1>8. since_report' = IF since_report > LongInterval THEN since_report ELSE since_report + 1
  BY DEF Tick
<1>9. ASSUME wait' >= 0
      PROVE  wait >= 0 /\ wait' \in Int /\ wait' <= wait + 1
  <2>1. wait # -1
    BY <1>9 DEF Tick
  <2>2. wait' = H!Elapsed(wait, 1)
    BY <2>1 DEF Tick
  <2>3. QED
    BY <2>1, <2>2, <1>3, <1>4 DEF H!Elapsed, H!Lesser
<1>10. WatchedIsActive'
  BY <1>1, <1>9 DEF TimeInv, WatchedIsActive
<1>11. OnTime'
  <2> SUFFICES ASSUME wait' >= 0
               PROVE  OnTime'
    BY DEF OnTime
  <2>1. wait >= 0 /\ wait' \in Int /\ wait' <= wait + 1
    BY <1>9
  <2>2. cooldown_left' > 0 => cooldown_left' = cooldown_left - 1 /\ cooldown_left > 0
    BY <1>4, <1>5
  <2>3. CoolBy(Cooldown) => CoolBy(Cooldown)'
    BY <1>3, <1>4, <2>1, <2>2 DEF CoolBy
  <2>4. CoolBy(2 * Cooldown) => CoolBy(2 * Cooldown)'
    BY <1>3, <1>4, <2>1, <2>2 DEF CoolBy
  <2>5. WaitsSinceReport => WaitsSinceReport'
    BY <1>3, <1>4, <1>8, <2>1 DEF WaitsSinceReport
  <2>6. HurriedUnlisted => HurriedUnlisted'
    BY <1>1, <1>3, <1>4, <1>8, <2>1, <2>3 DEF HurriedUnlisted
  <2>7. HurriedListed => HurriedListed'
    BY <1>1, <1>2, <1>3, <1>4, <1>7, <2>1, <2>3, Bounds DEF HurriedListed, CoolBy
  <2>8. OlderUnwritten => OlderUnwritten'
    BY <1>1, <1>3, <1>4, <2>1, <2>3, <2>5 DEF OlderUnwritten, CoolBy
  <2>9. OlderAwaited => OlderAwaited'
    <3> SUFFICES ASSUME OlderAwaited PROVE OlderAwaited'
      OBVIOUS
    <3>1. answer_left >= 0 /\ answer_left' = answer_left - 1
      BY <1>1, <1>4, <1>5 DEF OlderAwaited
    <3>2. wait' <= Cooldown + AnswerTimeout - answer_left'
      BY <3>1, <1>3, <1>4, <2>1 DEF OlderAwaited
    <3>3. QED
      BY <1>1, <2>4, <2>5, <3>2 DEF OlderAwaited
  <2>10. OlderGone => OlderGone'
    BY <1>1, <1>3, <1>4, <1>8, <2>1, <2>4, <2>5, Bounds DEF OlderGone, WaitsSinceReport
  <2>11. LateListed => LateListed'
    BY <1>1, <1>3, <1>4, <2>1, <2>4, Bounds DEF LateListed, CoolBy
  <2>12. QED
    BY <1>1, <1>2, <1>7, <2>1, <2>6, <2>7, <2>8, <2>9, <2>10, <2>11 DEF TimeInv, OnTime
<1>12. QED
  BY <1>6, <1>7, <1>10, <1>11 DEF TimeInv

\* Only an answer to a report pauses the alarms.
LEMMA PauseNeedsAnswer ==
  ASSUME NEW frames, Dispatch(frames), \A c \in calls' : c.op # "answered"
  PROVE  alarm_paused' = alarm_paused
BY DEF Dispatch, stop_alarm_handler

\* loop() writes the report, ends it, or waits.
LEMMA LoopTimes == ASSUME TimeInv, IInv, Loop PROVE TimeInv'
<1>1. PICK arrived, frames : H!Iteration(arrived, HandlerRun(frames)) /\ Dispatch(frames)
  BY LoopParts
<1>2. /\ UNCHANGED <<alarm_status_buf, since_report, hurried>>
      /\ pc = "loop" /\ pc' = "trigger" /\ due' = FALSE /\ RoundOver'
      /\ wait' = WaitAfterLoop
  BY DEF Loop, Block, RoundOver
<1>3. Deadlines /\ OneTry /\ OneReport /\ Types
  BY DEF TimeInv, IInv
<1>4. /\ Rested \/ Wrote \/ Finished \/ Waited
      /\ cooldown_interval_' = cooldown_interval_
      /\ answer_timeout_interval_' = answer_timeout_interval_
  BY <1>1, <1>3, LoopOutcome
<1>5. /\ Cooldown \in Nat /\ AnswerTimeout \in Nat /\ LongInterval \in Nat
      /\ wait \in Int /\ wait >= -1 /\ since_report \in Nat
      /\ cooldown_left \in Int /\ cooldown_left >= -1 /\ cooldown_left <= Cooldown
      /\ answer_left \in Int /\ answer_left >= -1 /\ answer_left <= AnswerTimeout
      /\ retry_left \in Int /\ retry_left >= -1 /\ retry_left <= 0
  BY <1>3, LimitsAreNumbers, Numbers DEF TimeInv
<1>6. /\ cooldown_left' \in Int /\ cooldown_left' >= -1 /\ cooldown_left' <= Cooldown
      /\ answer_left' \in Int /\ answer_left' >= -1 /\ answer_left' <= AnswerTimeout
      /\ retry_left' \in Int /\ retry_left' >= -1 /\ retry_left' <= 0
  BY <1>4, <1>5 DEF Rested, Wrote, Finished, Waited, CoolAfter
<1>7. Deadlines'
  BY <1>3, <1>4, <1>5, <1>6 DEF Deadlines
<1>8. OneTry'
  BY <1>3, <1>4 DEF OneTry, ReportOpen, Rested, Wrote, Finished, Waited
<1>9. ASSUME wait' >= 0
      PROVE  /\ wait >= 0 /\ ~silenced' /\ wait' \in Int /\ wait' <= wait
             /\ wait' = IF SentAnswer THEN 0 ELSE wait
             /\ \A c \in calls' : c.op = "request" => Watched \notin c.msg
  <2>1. ~silenced' /\ \A c \in calls' : c.op = "request" => Watched \notin c.msg
    BY <1>2, <1>9 DEF WaitAfterLoop
  <2>2. wait' = IF wait >= 0 /\ SentAnswer THEN 0 ELSE wait
    BY <1>2, <2>1 DEF WaitAfterLoop, SentAnswer
  <2>3. QED
    BY <1>5, <1>9, <2>1, <2>2
<1>10. WatchedIsActive'
  <2> SUFFICES ASSUME wait' >= 0
               PROVE  /\ Watched \in alarm_status_buf' /\ ~alarm_stopped' /\ ~silenced'
    BY DEF WatchedIsActive
  <2>1. Watched \in alarm_status_buf /\ ~alarm_stopped /\ ~silenced'
    BY <1>9 DEF TimeInv, WatchedIsActive
  <2>2. alarm_stopped' /\ ~alarm_stopped => silenced' \/ alarm_status_buf = {}
    BY <1>1, <1>3, DispatchIs
  <2>3. QED
    BY <1>2, <2>1, <2>2
<1>11. ASSUME wait' >= 0 PROVE OnTime'
  <2>1. /\ wait >= 0 /\ wait' \in Int /\ wait' <= wait
        /\ wait' = IF SentAnswer THEN 0 ELSE wait
    BY <1>9, <1>11
  <2>2. WaitsSinceReport => WaitsSinceReport'
    BY <1>2, <1>5, <2>1 DEF WaitsSinceReport
  <2>3. hurried' = hurried /\ since_report' = since_report /\ pc' # "loop"
    BY <1>2
  <2>4. CASE Rested
    <3>1. /\ state_ = "IDLE" /\ state_' = "IDLE" /\ outgoing_messages_' = outgoing_messages_
          /\ ReportOpen => cooldown_left' > 0
          /\ cooldown_left' = CoolAfter
          /\ \A c \in calls' : c.op # "answered"
      BY <2>4 DEF Rested
    <3>2. (ReportOpen' <=> ReportOpen) /\ (Listed' <=> Listed)
      BY <3>1 DEF ReportOpen, Listed
    <3>3. alarm_paused' = alarm_paused
      BY <1>1, <3>1, PauseNeedsAnswer
    <3>4. CoolBy(Cooldown) => CoolBy(Cooldown)'
      BY <1>5, <2>1, <3>1 DEF CoolBy, CoolAfter
    <3>5. CoolBy(2 * Cooldown) => CoolBy(2 * Cooldown)'
      BY <1>5, <2>1, <3>1 DEF CoolBy, CoolAfter
    <3>6. HurriedUnlisted => HurriedUnlisted'
      BY <1>2, <1>5, <2>1, <3>3, <3>4, LimitsAreNumbers DEF HurriedUnlisted
    <3>7. HurriedListed /\ ReportOpen => HurriedListed'
      BY <1>2, <1>5, <2>1, <3>1, <3>2, <3>4, Bounds DEF HurriedListed
    <3>8. OlderUnwritten /\ ReportOpen => OlderUnwritten'
      BY <1>5, <2>1, <2>2, <3>1, <3>4 DEF OlderUnwritten
    <3>9. LateListed /\ ReportOpen => LateListed'
      BY <1>5, <2>1, <3>1, <3>5, Bounds DEF LateListed
    <3>10. OlderGone => OlderGone'
      BY <1>2, <1>5, <2>1, <2>2, <2>3, <3>5, Bounds DEF OlderGone
    <3>11. OnTime
      BY DEF TimeInv
    <3>12. QED
      BY <2>1, <2>3, <3>1, <3>2, <3>6, <3>7, <3>8, <3>9, <3>10, <3>11 DEF OnTime
  <2>5. CASE Wrote
    <3>1. /\ state_ = "IDLE" /\ state_' = "WAITING_FOR_ANSWER" /\ ReportOpen /\ ReportOpen'
          /\ cooldown_left' = Cooldown /\ answer_left' = AnswerTimeout
      BY <2>5 DEF Wrote
    <3>2. ~Listed
      BY <1>9, <1>11, <2>5 DEF Wrote, Listed
    <3>3. ~hurried /\ OlderUnwritten
      BY <2>1, <3>1, <3>2 DEF TimeInv, OnTime, HurriedListed
    <3>4. CoolBy(2 * Cooldown)'
      BY <1>5, <2>1, <3>1, <3>3 DEF OlderUnwritten, CoolBy
    <3>5. OlderAwaited'
      BY <1>5, <2>1, <2>2, <3>1, <3>3, <3>4 DEF OlderUnwritten, OlderAwaited
    <3>6. QED
      BY <2>3, <3>1, <3>3, <3>5 DEF OnTime
  <2>6. ASSUME state_ = "WAITING_FOR_ANSWER", ReportOpen,
               cooldown_left' = cooldown_left, answer_left' = answer_left
        PROVE  ~hurried /\ OlderAwaited /\ CoolBy(2 * Cooldown)' /\ WaitsSinceReport'
    <3>1. ~hurried /\ OlderAwaited
      BY <2>1, <2>6 DEF TimeInv, OnTime, HurriedListed
    <3>2. QED
      BY <1>5, <2>1, <2>2, <2>6, <3>1 DEF OlderAwaited, CoolBy
  <2>7. CASE Finished
    <3>1. /\ state_ = "WAITING_FOR_ANSWER" /\ ReportOpen /\ ~ReportOpen'
          /\ cooldown_left' = cooldown_left /\ answer_left' = answer_left
      BY <2>7 DEF Finished
    <3>2. ~hurried /\ OlderAwaited /\ CoolBy(2 * Cooldown)' /\ WaitsSinceReport'
      BY <2>6, <3>1
    <3>3. wait' <= Cooldown + AnswerTimeout + 1
      BY <1>5, <2>1, <3>2 DEF OlderAwaited
    <3>4. OlderGone'
      BY <1>5, <2>1, <2>3, <3>2, <3>3, Bounds DEF OlderGone
    <3>5. QED
      BY <2>3, <3>1, <3>2, <3>4 DEF OnTime
  <2>8. CASE Waited
    <3>1. /\ state_ = "WAITING_FOR_ANSWER" /\ state_' = state_
          /\ answer_left >= 0 /\ outgoing_messages_' = outgoing_messages_
          /\ cooldown_left' = cooldown_left /\ answer_left' = answer_left
      BY <2>8 DEF Waited
    <3>2. ReportOpen /\ ReportOpen'
      BY <1>3, <3>1 DEF OneReport, ReportOpen
    <3>3. ~hurried /\ OlderAwaited /\ CoolBy(2 * Cooldown)' /\ WaitsSinceReport'
      BY <2>6, <3>1, <3>2
    <3>4. OlderAwaited'
      BY <1>5, <2>1, <3>1, <3>3 DEF OlderAwaited
    <3>5. QED
      BY <2>3, <3>1, <3>2, <3>3, <3>4 DEF OnTime
  <2>9. QED
    BY <1>4, <2>4, <2>5, <2>7, <2>8
<1>12. OnTime'
  BY <1>11 DEF OnTime
<1>13. QED
  BY <1>7, <1>8, <1>10, <1>12 DEF TimeInv

\* Every step keeps the invariant.
LEMMA StepTimes == TimeInv /\ IInv /\ [Next]_vars => TimeInv'
BY TriggerTimes, ResetTimes, ReportTimes, LoopTimes, KeyTimes, TickTimes DEF Next

\* How far the wait of a new alarm has come at every point of a report's life.
THEOREM WaitsArePlaced == Spec => []TimeInv
BY InitTimes, StepTimes, AlarmInvariant, PTL DEF Spec

\* ReportedInTime: an alarm is on the line within the bound of its case, whatever the
\* intervals are, however frames, keys and other alarms fall.
THEOREM AlarmsReportedInTime == Spec => []ReportedInTime
<1>1. TimeInv /\ IInv => ReportedInTime
  <2> SUFFICES ASSUME TimeInv, IInv PROVE ReportedInTime
    OBVIOUS
  <2>1. /\ wait \in Int /\ answer_left \in Int /\ answer_left >= -1
        /\ Cooldown \in Nat /\ AnswerTimeout \in Nat
    BY Numbers, LimitsAreNumbers DEF TimeInv
  <2>2. CASE wait < 0
    BY <2>1, <2>2, Bounds DEF ReportedInTime
  <2>3. CASE wait >= 0 /\ hurried
    BY <2>1, <2>3, Bounds, LimitsAreNumbers
       DEF TimeInv, OnTime, HurriedUnlisted, HurriedListed, ReportedInTime
  <2>4. CASE wait >= 0 /\ ~hurried
    <3>1. OlderAwaited \/ OlderUnwritten \/ LateListed \/ OlderGone
      BY <2>4 DEF TimeInv, OnTime, OneTry
    <3>2. wait <= LongestWait
      BY <2>1, <3>1, Bounds DEF OlderAwaited, OlderUnwritten, LateListed, OlderGone
    <3>3. QED
      BY <2>4, <3>2 DEF ReportedInTime
  <2>5. QED
    BY <2>1, <2>2, <2>3, <2>4
<1>2. QED
  BY <1>1, AlarmInvariant, WaitsArePlaced, PTL
=============================================================================
