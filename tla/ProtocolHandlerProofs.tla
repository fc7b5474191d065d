------------------------ MODULE ProtocolHandlerProofs ------------------------
(***************************************************************************)
(* Proofs of the safety properties of ProtocolHandler, for any sets of     *)
(* messages and intervals.  The queue operations are dealt with first, by  *)
(* lemmas about a queue q and the tries n made of its oldest message; then *)
(* IInv is shown inductive, one lemma per kind of step, and each property  *)
(* follows from it.  Then every step is shown to be one of RequestQueue.   *)
(* Last comes what QueueDrains rests on: the oldest message gets through.  *)
(***************************************************************************)
EXTENDS ProtocolHandler, SequenceTheorems, TLAPS

-----------------------------------------------------------------------------
(* The inductive invariant that the safety properties follow from          *)

\* A request is awaited after a try; between two tries its answer time is over;
\* when no try is left outside WAITING_FOR_ANSWER, every try failed.
TriesFitState ==
  /\ state_ = "WAITING_FOR_ANSWER" =>
       tried > 0 /\ last_message_type_ \notin Unsendable
  /\ state_ = "IDLE" /\ tried > 0 => answer_left < 0
  /\ state_ = "IDLE" /\ outgoing_messages_ # <<>>
       /\ Head(outgoing_messages_).number_of_retries = 0 =>
         Head(outgoing_messages_).msg \in Unsendable

\* The deadlines cover what is left of the intervals they were set from.
DeadlinesCover ==
  /\ since_write < gap => since_write + cooldown_left >= gap
  /\ state_ = "WAITING_FOR_ANSWER" /\ answer_left >= 0 =>
       since_try + answer_left <= window
  /\ tried > 0 /\ since_try + LoopTime <= window =>
       since_try + LoopTime + answer_left >= window
  /\ tried > 0 =>
       LET interval == Head(outgoing_messages_).retry_interval
       IN  since_try + LoopTime < interval =>
             since_try + LoopTime + retry_left >= interval

\* Every reachable state satisfies the invariant that the proofs of the
\* safety properties rest on.
IInv == TypeOK /\ AwaitsTheOldest /\ TriesAddUp /\ TriesFitState /\ DeadlinesCover

-----------------------------------------------------------------------------
(* The queue                                                               *)

\* q is a queue and n tries of its oldest message are made: TriesAddUp of q, n.
Accounts(q, n) ==
  /\ q \in Seq(OutgoingQueueItem)
  /\ \A i \in 2 .. Len(q) : q[i].number_of_retries = q[i].granted
  /\ IF q = <<>> \/ q[1].msg \in Unsendable
       THEN n = 0
       ELSE q[1].number_of_retries + n = q[1].granted

\* The fields of a queue item have their types.
LEMMA ItemFields ==
  ASSUME NEW item \in OutgoingQueueItem
  PROVE  /\ item.msg \in Message
         /\ item.no_answer \in BOOLEAN
         /\ item.number_of_retries \in Nat
         /\ item.number_of_retries <= MAX_PACKET_RETRIES + 1
         /\ item.retry_interval \in RetryIntervals \cup {0}
         /\ item.granted \in Nat /\ item.granted > 0
         /\ item.granted <= MAX_PACKET_RETRIES + 1
BY LimitsAssumption DEF OutgoingQueueItem, Tries

\* A message is queued with all the tries it is granted, at least one.
LEMMA SubmissionsAreFresh ==
  ASSUME NEW s \in Submissions
  PROVE  s \in OutgoingQueueItem /\ s.number_of_retries = s.granted
<1>1. CASE \E m \in Message, n \in Repeats, i \in RetryIntervals : s = Request(m, n, i)
  <2>1. PICK m \in Message, n \in Repeats, i \in RetryIntervals : s = Request(m, n, i)
    BY <1>1
  <2>2. n \in Nat
    BY LimitsAssumption
  <2>3. Lesser(n, MAX_PACKET_RETRIES) + 1 \in Tries \ {0}
    BY <2>2, LimitsAssumption DEF Lesser, Tries
  <2>. QED BY <2>1, <2>3 DEF Request, OutgoingQueueItem
<1>2. CASE \E m \in Message : s = Notification(m)
  BY <1>2, LimitsAssumption DEF Notification, OutgoingQueueItem, Tries
<1>. QED BY <1>1, <1>2 DEF Submissions

\* Queueing a batch keeps the accounts, and the oldest message if there is one.
LEMMA PushKeepsAccounts ==
  ASSUME NEW q, NEW n \in Nat, NEW batch \in Batches, Accounts(q, n)
  PROVE  /\ Accounts(q \o batch, n)
         /\ q # <<>> => q \o batch # <<>> /\ Head(q \o batch) = Head(q)
         /\ q = <<>> /\ q \o batch # <<>> =>
              Head(q \o batch).number_of_retries = Head(q \o batch).granted
<1>1. q \in Seq(OutgoingQueueItem)
  BY DEF Accounts
<1>2. CASE batch = <<>>
  <2>1. q \o batch = q
    BY <1>1, <1>2, ConcatEmptySeq
  <2>. QED BY <2>1
<1>3. CASE \E s \in Submissions : batch = <<s>>
  <2>1. PICK s \in Submissions : batch = <<s>>
    BY <1>3
  <2>2. s \in OutgoingQueueItem /\ s.number_of_retries = s.granted
    BY SubmissionsAreFresh
  <2>3. batch \in Seq(OutgoingQueueItem) /\ Len(batch) = 1 /\ batch[1] = s
    BY <2>1, <2>2
  <2>5. Len(q) \in Nat
    BY <1>1
  <2>c. /\ q \o batch \in Seq(OutgoingQueueItem)
        /\ Len(q \o batch) = Len(q) + Len(batch)
        /\ \A i \in 1 .. Len(q) + Len(batch) :
             (q \o batch)[i] = IF i <= Len(q) THEN q[i] ELSE batch[i - Len(q)]
    BY <1>1, <2>3, ConcatProperties
  <2>4. /\ q \o batch \in Seq(OutgoingQueueItem)
        /\ Len(q \o batch) = Len(q) + 1
        /\ \A i \in 1 .. Len(q) + 1 :
             (q \o batch)[i] = IF i <= Len(q) THEN q[i] ELSE s
    BY <2>3, <2>5, <2>c
  <2>6. CASE q = <<>>
    <3>1. Len(q) = 0 /\ n = 0
      BY <2>6 DEF Accounts
    <3>2. /\ (q \o batch)[1] = s /\ q \o batch # <<>>
          /\ Len(q \o batch) = 1
      BY <2>4, <3>1
    <3>3. s.number_of_retries + 0 = s.granted
      BY <2>2, ItemFields
    <3>4. Accounts(q \o batch, n)
      BY <2>4, <3>1, <3>2, <3>3 DEF Accounts
    <3>. QED BY <2>2, <2>4, <2>6, <3>2, <3>4
  <2>7. CASE q # <<>>
    <3>1. Len(q) > 0
      BY <1>1, <2>7
    <3>2. (q \o batch)[1] = q[1] /\ q \o batch # <<>>
      BY <2>4, <2>5, <3>1
    <3>3. \A i \in 2 .. Len(q) + 1 :
            (q \o batch)[i].number_of_retries = (q \o batch)[i].granted
      BY <2>2, <2>4, <2>5 DEF Accounts
    <3>. QED BY <2>4, <2>7, <3>2, <3>3 DEF Accounts
  <2>. QED BY <2>6, <2>7
<1>. QED BY <1>2, <1>3 DEF Batches

\* Removing the oldest message starts the accounts of the next one.
LEMMA PopRestartsAccounts ==
  ASSUME NEW q, NEW n \in Nat, Accounts(q, n), q # <<>>
  PROVE  /\ Accounts(Tail(q), 0)
         /\ Tail(q) # <<>> =>
              Head(Tail(q)).number_of_retries = Head(Tail(q)).granted
<1>1. q \in Seq(OutgoingQueueItem) /\ Len(q) \in Nat
  BY DEF Accounts
<1>2. /\ Tail(q) \in Seq(OutgoingQueueItem)
      /\ Len(Tail(q)) = Len(q) - 1
      /\ \A i \in 1 .. Len(q) - 1 : Tail(q)[i] = q[i + 1]
  BY <1>1, HeadTailProperties
<1>3. \A i \in 1 .. Len(q) - 1 : Tail(q)[i].number_of_retries = Tail(q)[i].granted
  BY <1>1, <1>2 DEF Accounts
<1>4. ASSUME Tail(q) # <<>>
      PROVE  /\ Len(q) - 1 >= 1
             /\ Tail(q)[1] \in OutgoingQueueItem
             /\ Tail(q)[1].number_of_retries + 0 = Tail(q)[1].granted
  <2>1. Len(q) - 1 >= 1
    BY <1>1, <1>2, <1>4, EmptySeq
  <2>2. Tail(q)[1] \in OutgoingQueueItem
    BY <1>1, <1>2, <2>1, ElementOfSeq
  <2>3. Tail(q)[1].number_of_retries = Tail(q)[1].granted
    BY <1>1, <1>3, <2>1, SMTT(30)
  <2>4. Tail(q)[1].number_of_retries \in Nat
    BY <2>2, ItemFields
  <2>. QED BY <2>1, <2>2, <2>3, <2>4
<1>. QED BY <1>2, <1>3, <1>4 DEF Accounts

\* Using up a try of the oldest message moves it from those left to those made,
\* unless the write failed, which is not counted.
LEMMA TryMovesOne ==
  ASSUME NEW q, NEW n \in Nat, Accounts(q, n), q # <<>>,
         Head(q).number_of_retries > 0
  PROVE  /\ UseTry(q) # <<>>
         /\ Head(UseTry(q)).msg = Head(q).msg
         /\ Head(UseTry(q)).no_answer = Head(q).no_answer
         /\ Head(UseTry(q)).retry_interval = Head(q).retry_interval
         /\ Head(q).msg \in Unsendable => Accounts(UseTry(q), n)
         /\ Head(q).msg \notin Unsendable => Accounts(UseTry(q), n + 1)
<1>. DEFINE item == q[1]
            used == [item EXCEPT !.number_of_retries = @ - 1]
            r == UseTry(q)
<1>1. q \in Seq(OutgoingQueueItem) /\ Len(q) \in Nat /\ Len(q) >= 1
  BY EmptySeq DEF Accounts
<1>2. item \in OutgoingQueueItem /\ item.number_of_retries > 0
  BY <1>1, ElementOfSeq
<1>3. used \in OutgoingQueueItem
  BY <1>2, LimitsAssumption DEF OutgoingQueueItem, Tries
<1>4. /\ used.msg = item.msg
      /\ used.no_answer = item.no_answer
      /\ used.retry_interval = item.retry_interval
      /\ used.granted = item.granted
      /\ used.number_of_retries = item.number_of_retries - 1
  BY <1>2 DEF OutgoingQueueItem
<1>5. item.number_of_retries \in Nat /\ item.granted \in Nat
  BY <1>2, ItemFields
<1>6. /\ r \in Seq(OutgoingQueueItem)
      /\ Len(r) = Len(q)
      /\ r[1] = used
      /\ \A i \in 2 .. Len(q) : r[i] = q[i]
  <2>1. r = [q EXCEPT ![1] = used]
    BY <1>1 DEF UseTry
  <2>. QED BY <1>1, <1>3, <2>1, ExceptSeq
<1>. HIDE DEF r, used, item
<1>7. r # <<>>
  BY <1>1, <1>6
<1>8. q[1] = item
  BY DEF item
<1>9. CASE item.msg \in Unsendable
  BY <1>1, <1>4, <1>5, <1>6, <1>7, <1>8, <1>9 DEF Accounts, r
<1>10. CASE item.msg \notin Unsendable
  BY <1>1, <1>4, <1>5, <1>6, <1>7, <1>8, <1>10 DEF Accounts, r
<1>. QED BY <1>9, <1>10

-----------------------------------------------------------------------------
(* Time and handlers                                                       *)

\* What is left of a deadline shrinks by the time passed, down to -1.
LEMMA LeftShrinks ==
  ASSUME NEW left \in Int, left >= -1, NEW t \in Nat
  PROVE  /\ Left(left, t) \in Int
         /\ Left(left, t) >= -1
         /\ Left(left, t) + t >= left
         /\ Left(left, t) <= left
         /\ Left(left, t) >= 0 => Left(left, t) + t = left
BY DEF Left

\* Elapsed time grows by the time passed, up to Horizon.
LEMMA ElapsedGrows ==
  ASSUME NEW since \in 0..Horizon, NEW t \in Nat
  PROVE  /\ Elapsed(since, t) \in 0..Horizon
         /\ Elapsed(since, t) <= since + t
         /\ Elapsed(since, t) < Horizon => Elapsed(since, t) = since + t
BY TimesAssumption DEF Elapsed, Lesser

\* Every interval in use ends before Horizon.
LEMMA IntervalsEnd ==
  /\ \A i \in RetryIntervals \cup {0} : i \in Nat /\ i < Horizon
  /\ \A i \in AnswerTimeouts \cup {0} : i \in Nat /\ i < Horizon
  /\ \A i \in CooldownIntervals \cup {0} : i \in Nat /\ i < Horizon
<1>1. \A i \in RetryIntervals \cup AnswerTimeouts \cup CooldownIntervals :
        i \in Nat /\ i < Horizon
  BY TimesAssumption, HorizonAssumption
<1>2. PICK j \in AnswerTimeouts : TRUE
  BY TimesAssumption
<1>3. 0 < Horizon
  BY <1>1, <1>2, TimesAssumption
<1>. QED BY <1>1, <1>3

\* What is left of a deadline keeps covering what is left of its span, which
\* since and a slack have used.
LEMMA CoverLasts ==
  ASSUME NEW left \in Int, left >= -1, NEW since \in 0..Horizon, NEW t \in Nat,
         NEW slack \in Nat, NEW span \in Nat, span < Horizon
  PROVE  /\ (since + slack < span => since + slack + left >= span) =>
              (Elapsed(since, t) + slack < span =>
                 Elapsed(since, t) + slack + Left(left, t) >= span)
         /\ (since + slack <= span => since + slack + left >= span) =>
              (Elapsed(since, t) + slack <= span =>
                 Elapsed(since, t) + slack + Left(left, t) >= span)
<1>1. Left(left, t) + t >= left /\ Left(left, t) \in Int
  BY LeftShrinks
<1>2. CASE Elapsed(since, t) = since + t
  BY <1>1, <1>2
<1>3. CASE Elapsed(since, t) = Horizon
  BY <1>1, <1>3, TimesAssumption
<1>. QED BY <1>2, <1>3 DEF Elapsed, Lesser

\* What a run of a handler may do.
LEMMA RunFields ==
  ASSUME NEW S \in SUBSET BOOLEAN, NEW run,
         run \in HandlerRuns(S) \/ run = NoRun
  PROVE  /\ run.pushed \in Batches
         /\ run.answered \in BOOLEAN
         /\ run.took \in Nat /\ run.took <= HandlerTime
<1>1. CASE run \in HandlerRuns(S)
  BY <1>1, TimesAssumption DEF HandlerRuns
<1>2. CASE run = NoRun
  BY <1>2, TimesAssumption DEF NoRun, Batches
<1>. QED BY <1>1, <1>2

\* Frames that arrive are frames.
LEMMA ArrivalsAreFrames ==
  ASSUME NEW arrived \in Arrivals, incoming_queue_ \in Seq(Frame)
  PROVE  /\ arrived \in Seq(Frame)
         /\ incoming_queue_ \o arrived \in Seq(Frame)
<1>1. arrived \in Seq(Frame)
  <2>1. PICK n \in 0..MaxBurst : arrived \in [1..n -> Frame]
    BY DEF Arrivals
  <2>. QED BY <2>1, LimitsAssumption, SeqDef
<1>. QED BY <1>1, ConcatProperties

-----------------------------------------------------------------------------
(* IInv is inductive                                                       *)

LEMMA InitEstablishes == Init => IInv
<1>. SUFFICES ASSUME Init PROVE IInv
  OBVIOUS
<1>1. Horizon \in Nat /\ Horizon > 0
  BY TimesAssumption, IntervalsEnd
<1>2. TypeOK
  BY <1>1 DEF Init, TypeOK
<1>3. AwaitsTheOldest /\ TriesAddUp /\ TriesFitState
  BY DEF Init, AwaitsTheOldest, TriesAddUp, TriesFitState
<1>4. DeadlinesCover
  BY <1>1 DEF Init, DeadlinesCover
<1>. QED BY <1>2, <1>3, <1>4 DEF IInv

\* The part of IInv that is about the queue, as Accounts.
LEMMA InvariantAccounts ==
  IInv => Accounts(outgoing_messages_, tried) /\ tried \in Nat
BY DEF IInv, TypeOK, TriesAddUp, Accounts

\* The parts of DeadlinesCover, for deadlines that other steps set apart.
CooldownCovers == since_write < gap => since_write + cooldown_left >= gap
AnswerCovers ==
  /\ state_ = "WAITING_FOR_ANSWER" /\ answer_left >= 0 =>
       since_try + answer_left <= window
  /\ tried > 0 /\ since_try + LoopTime <= window =>
       since_try + LoopTime + answer_left >= window
RetryCovers ==
  tried > 0 =>
    LET interval == Head(outgoing_messages_).retry_interval
    IN  since_try + LoopTime < interval =>
          since_try + LoopTime + retry_left >= interval

LEMMA DeadlineParts ==
  CooldownCovers' /\ AnswerCovers' /\ RetryCovers' => DeadlinesCover'
BY DEF DeadlinesCover, CooldownCovers, AnswerCovers, RetryCovers

\* While t passes with no write, the cooldown keeps covering its gap.
LEMMA CooldownAges ==
  ASSUME IInv, NEW t \in Nat,
         cooldown_left' = Left(cooldown_left, t),
         since_write' = Elapsed(since_write, t),
         gap' = gap
  PROVE  CooldownCovers'
<1>1. gap \in Nat /\ gap < Horizon
  BY IntervalsEnd DEF IInv, TypeOK
<1>2. since_write < gap => since_write + cooldown_left >= gap
  BY DEF IInv, DeadlinesCover
<1>3. /\ cooldown_left \in Int /\ cooldown_left >= -1
      /\ since_write \in 0..Horizon
  BY DEF IInv, TypeOK
<1>4. Elapsed(since_write, t) < gap =>
        Elapsed(since_write, t) + Left(cooldown_left, t) >= gap
  <2>1. since_write + 0 < gap => since_write + 0 + cooldown_left >= gap
    BY <1>1, <1>2, <1>3
  <2>2. Elapsed(since_write, t) + 0 < gap =>
          Elapsed(since_write, t) + 0 + Left(cooldown_left, t) >= gap
    BY <1>1, <1>3, <2>1, CoverLasts
  <2>3. Elapsed(since_write, t) \in Nat /\ Left(cooldown_left, t) \in Int
    BY <1>3, LeftShrinks, ElapsedGrows
  <2>. HIDE DEF Left, Elapsed
  <2>. QED BY <1>1, <2>2, <2>3
<1>. QED BY <1>4 DEF CooldownCovers

\* While t passes with no try, the answer and retry deadlines keep covering.
LEMMA TryAges ==
  ASSUME IInv, NEW t \in Nat,
         answer_left' = Left(answer_left, t),
         since_try' = Elapsed(since_try, t),
         UNCHANGED <<tried, window>>,
         state_' = state_ \/ state_' = "IDLE"
  PROVE  /\ AnswerCovers'
         /\ /\ retry_left' = Left(retry_left, t)
            /\ tried > 0 => Head(outgoing_messages_)'.retry_interval
                              = Head(outgoing_messages_).retry_interval
            => RetryCovers'
<1>1. window \in Nat /\ window < Horizon
  BY IntervalsEnd DEF IInv, TypeOK
<1>2. /\ answer_left \in Int /\ answer_left >= -1
      /\ retry_left \in Int /\ retry_left >= -1
      /\ since_try \in 0..Horizon
  BY DEF IInv, TypeOK
<1>3. LoopTime \in Nat
  BY TimesAssumption DEF LoopTime
<1>4. AnswerCovers'
  <2>1. ASSUME state_ = "WAITING_FOR_ANSWER", Left(answer_left, t) >= 0
        PROVE  Elapsed(since_try, t) + Left(answer_left, t) <= window
    <3>1. answer_left >= 0 /\ Left(answer_left, t) + t = answer_left
      BY <1>2, <2>1, LeftShrinks
    <3>2. since_try + answer_left <= window
      BY <2>1, <3>1 DEF IInv, DeadlinesCover
    <3>. QED BY <1>1, <1>2, <3>1, <3>2, ElapsedGrows, LeftShrinks
  <2>2. ASSUME tried > 0
        PROVE  Elapsed(since_try, t) + LoopTime <= window =>
                 Elapsed(since_try, t) + LoopTime + Left(answer_left, t) >= window
    <3>1. since_try + LoopTime <= window =>
            since_try + LoopTime + answer_left >= window
      BY <2>2 DEF IInv, DeadlinesCover
    <3>. QED BY <1>1, <1>2, <1>3, <3>1, CoverLasts
  <2>. QED BY <2>1, <2>2 DEF AnswerCovers, LoopTime
<1>5. ASSUME tried > 0, retry_left' = Left(retry_left, t)
      PROVE  LET interval == Head(outgoing_messages_).retry_interval
             IN  Elapsed(since_try, t) + LoopTime < interval =>
                   Elapsed(since_try, t) + LoopTime + Left(retry_left, t) >= interval
  <2>. DEFINE interval == Head(outgoing_messages_).retry_interval
  <2>1. outgoing_messages_ # <<>>
    BY <1>5 DEF IInv, TriesAddUp
  <2>2. interval \in Nat /\ interval < Horizon
    <3>1. Head(outgoing_messages_) \in OutgoingQueueItem
      BY <2>1, HeadTailProperties DEF IInv, TypeOK
    <3>. QED BY <3>1, ItemFields, IntervalsEnd
  <2>3. since_try + LoopTime < interval => since_try + LoopTime + retry_left >= interval
    BY <1>5 DEF IInv, DeadlinesCover
  <2>. HIDE DEF interval
  <2>4. Elapsed(since_try, t) + LoopTime < interval =>
          Elapsed(since_try, t) + LoopTime + Left(retry_left, t) >= interval
    BY <1>2, <1>3, <2>2, <2>3, CoverLasts
  <2>. QED BY <2>4 DEF interval
<1>. QED BY <1>4, <1>5 DEF RetryCovers, LoopTime

\* The ranges of timers and counts of time after t has passed.
LEMMA TimesStayOK ==
  ASSUME IInv, NEW t \in Nat
  PROVE  /\ \A left \in {cooldown_left, answer_left, retry_left} :
              Left(left, t) \in Int /\ Left(left, t) >= -1
         /\ \A since \in {since_write, since_try} : Elapsed(since, t) \in 0..Horizon
         /\ answer_left < 0 => Left(answer_left, t) < 0
<1>1. /\ cooldown_left \in Int /\ cooldown_left >= -1
      /\ answer_left \in Int /\ answer_left >= -1
      /\ retry_left \in Int /\ retry_left >= -1
      /\ since_write \in 0..Horizon
      /\ since_try \in 0..Horizon
  BY DEF IInv, TypeOK
<1>2. \A left \in {cooldown_left, answer_left, retry_left} :
        Left(left, t) \in Int /\ Left(left, t) >= -1
  BY <1>1, LeftShrinks
<1>3. \A since \in {since_write, since_try} : Elapsed(since, t) \in 0..Horizon
  BY <1>1, ElapsedGrows
<1>4. answer_left < 0 => Left(answer_left, t) < 0
  BY <1>1, LeftShrinks
<1>. QED BY <1>2, <1>3, <1>4

\* Frames added to or taken from incoming_queue_ disturb nothing of IInv; the
\* queue, the state and the deadlines are what the lemmas below are about.
LEMMA TickKeeps == ASSUME IInv, Tick PROVE IInv'
<1>1. /\ cooldown_left' = Left(cooldown_left, 1)
      /\ answer_left' = Left(answer_left, 1)
      /\ retry_left' = Left(retry_left, 1)
      /\ since_write' = Elapsed(since_write, 1)
      /\ since_try' = Elapsed(since_try, 1)
      /\ UNCHANGED <<state_, outgoing_messages_, incoming_queue_,
                     last_message_type_, answer_timeout_interval_,
                     cooldown_interval_, tried, gap, window>>
  BY DEF Tick, settings
<1>2. TypeOK'
  BY <1>1, TimesStayOK DEF IInv, TypeOK
<1>3. AwaitsTheOldest' /\ TriesAddUp'
  BY <1>1 DEF IInv, AwaitsTheOldest, TriesAddUp
<1>4. TriesFitState'
  BY <1>1, TimesStayOK DEF IInv, TriesFitState
<1>5. DeadlinesCover'
  <2>1. CooldownCovers'
    BY <1>1, CooldownAges
  <2>2. AnswerCovers' /\ RetryCovers'
    BY <1>1, TryAges
  <2>. QED BY <2>1, <2>2, DeadlineParts
<1>. QED BY <1>2, <1>3, <1>4, <1>5 DEF IInv

\* Steps that change neither the queue, nor the state, nor time.
LEMMA SettingsKeep ==
  ASSUME IInv,
         answer_timeout_interval_' \in AnswerTimeouts,
         cooldown_interval_' \in CooldownIntervals,
         UNCHANGED <<state_, outgoing_messages_, incoming_queue_,
                     last_message_type_, timers, history>>
  PROVE  IInv'
<1>1. UNCHANGED <<cooldown_left, answer_left, retry_left, tried, since_write,
                  since_try, gap, window>>
  BY DEF timers, history
<1>2. TypeOK'
  BY <1>1 DEF IInv, TypeOK
<1>3. AwaitsTheOldest' /\ TriesAddUp' /\ TriesFitState' /\ DeadlinesCover'
  BY <1>1
  DEF IInv, AwaitsTheOldest, TriesAddUp, TriesFitState, DeadlinesCover
<1>. QED BY <1>2, <1>3 DEF IInv

\* A message put at the end of the queue.
LEMMA EnqueueKeeps ==
  ASSUME IInv, NEW item \in Submissions, Enqueue(item)
  PROVE  IInv'
<1>1. UNCHANGED <<state_, incoming_queue_, last_message_type_,
                  answer_timeout_interval_, cooldown_interval_, cooldown_left,
                  answer_left, retry_left, tried, since_write, since_try, gap,
                  window>>
  BY DEF Enqueue, timers, history, settings
<1>2. Accounts(outgoing_messages_, tried) /\ tried \in Nat
  BY InvariantAccounts
<1>3. <<item>> \in Batches /\ item \in OutgoingQueueItem
  BY SubmissionsAreFresh DEF Batches
<1>4. outgoing_messages_' = outgoing_messages_ \o <<item>>
  BY <1>2, <1>3, AppendIsConcat DEF Enqueue, Accounts
<1>5. /\ Accounts(outgoing_messages_', tried')
      /\ outgoing_messages_ # <<>> =>
           /\ outgoing_messages_' # <<>>
           /\ Head(outgoing_messages_') = Head(outgoing_messages_)
      /\ outgoing_messages_ = <<>> /\ outgoing_messages_' # <<>> =>
           Head(outgoing_messages_').number_of_retries
             = Head(outgoing_messages_').granted
  BY <1>1, <1>2, <1>3, <1>4, PushKeepsAccounts
<1>6. TypeOK' /\ TriesAddUp'
  BY <1>1, <1>5 DEF IInv, TypeOK, TriesAddUp, Accounts
<1>7. AwaitsTheOldest'
  BY <1>1, <1>5 DEF IInv, AwaitsTheOldest
<1>8. outgoing_messages_ = <<>> /\ outgoing_messages_' # <<>> =>
        Head(outgoing_messages_').number_of_retries > 0
  <2>1. outgoing_messages_' # <<>> => Head(outgoing_messages_') \in OutgoingQueueItem
    BY <1>5, HeadTailProperties DEF Accounts
  <2>. QED BY <1>5, <2>1, ItemFields
<1>9. TriesFitState'
  BY <1>1, <1>5, <1>8 DEF IInv, TriesFitState
<1>10. DeadlinesCover'
  <2>1. tried > 0 => outgoing_messages_ # <<>>
    BY DEF IInv, TriesAddUp
  <2>. QED BY <1>1, <1>5, <2>1 DEF IInv, DeadlinesCover
<1>. QED BY <1>6, <1>7, <1>9, <1>10 DEF IInv

\* A timeout with tries left goes back to IDLE.
LEMMA RetryKeeps ==
  ASSUME IInv, NEW arrived \in Arrivals, LoopRetry(arrived)
  PROVE  IInv'
<1>1. UNCHANGED <<outgoing_messages_, last_message_type_, answer_timeout_interval_,
                  cooldown_interval_, cooldown_left, answer_left, retry_left,
                  tried, since_write, since_try, gap, window>>
  BY DEF LoopRetry, timers, history, settings
<1>2. /\ state_ = "WAITING_FOR_ANSWER" /\ state_' = "IDLE" /\ answer_left < 0
      /\ Head(outgoing_messages_).number_of_retries # 0
      /\ incoming_queue_' \in Seq(Frame)
  BY ArrivalsAreFrames DEF LoopRetry, IInv, TypeOK
<1>3. TypeOK' /\ AwaitsTheOldest' /\ TriesAddUp' /\ TriesFitState'
  BY <1>1, <1>2
  DEF IInv, TypeOK, AwaitsTheOldest, TriesAddUp, TriesFitState
<1>4. DeadlinesCover'
  BY <1>1, <1>2 DEF IInv, DeadlinesCover
<1>. QED BY <1>3, <1>4 DEF IInv

\* The oldest message leaves the queue after its handler ran.
LEMMA FinishKeeps ==
  ASSUME IInv, state_ = "WAITING_FOR_ANSWER", incoming_queue_' \in Seq(Frame),
         NEW run \in HandlerRuns({FALSE}), NEW op, Finish(run, op)
  PROVE  IInv'
<1>1. /\ run.pushed \in Batches
      /\ run.took \in Nat
  BY RunFields
<1>2. /\ outgoing_messages_' = Tail(outgoing_messages_) \o run.pushed
      /\ state_' = "IDLE"
      /\ retry_left' = Left(0, run.took)
      /\ cooldown_left' = Left(cooldown_left, run.took)
      /\ answer_left' = Left(answer_left, run.took)
      /\ since_write' = Elapsed(since_write, run.took)
      /\ since_try' = Elapsed(since_try, run.took)
      /\ tried' = 0
      /\ UNCHANGED <<last_message_type_, gap, window, answer_timeout_interval_,
                     cooldown_interval_>>
  BY DEF Finish, settings
<1>3. /\ Accounts(outgoing_messages_, tried) /\ tried \in Nat
      /\ outgoing_messages_ # <<>>
  BY InvariantAccounts DEF IInv, AwaitsTheOldest
<1>4. /\ Accounts(Tail(outgoing_messages_), 0)
      /\ Tail(outgoing_messages_) # <<>> =>
           Head(Tail(outgoing_messages_)).number_of_retries
             = Head(Tail(outgoing_messages_)).granted
  BY <1>3, PopRestartsAccounts
<1>5. /\ Accounts(outgoing_messages_', 0)
      /\ outgoing_messages_' # <<>> =>
           Head(outgoing_messages_').number_of_retries
             = Head(outgoing_messages_').granted
  BY <1>1, <1>2, <1>4, PushKeepsAccounts
<1>6. Left(0, run.took) \in Int /\ Left(0, run.took) >= -1
  BY <1>1 DEF Left
<1>7. TypeOK' /\ TriesAddUp'
  BY <1>1, <1>2, <1>5, <1>6, TimesStayOK DEF IInv, TypeOK, TriesAddUp, Accounts
<1>8. outgoing_messages_' # <<>> => Head(outgoing_messages_').number_of_retries > 0
  <2>1. outgoing_messages_' # <<>> => Head(outgoing_messages_') \in OutgoingQueueItem
    BY <1>5, HeadTailProperties DEF Accounts
  <2>. QED BY <1>5, <2>1, ItemFields
<1>9. AwaitsTheOldest' /\ TriesFitState'
  <2>1. state_' # "WAITING_FOR_ANSWER" /\ ~(tried' > 0)
    BY <1>2
  <2>2. outgoing_messages_' # <<>> => Head(outgoing_messages_').number_of_retries # 0
    BY <1>8
  <2>. QED BY <2>1, <2>2 DEF AwaitsTheOldest, TriesFitState
<1>10. DeadlinesCover'
  <2>1. CooldownCovers'
    BY <1>1, <1>2, CooldownAges
  <2>2. AnswerCovers' /\ RetryCovers'
    BY <1>2 DEF AnswerCovers, RetryCovers
  <2>. QED BY <2>1, <2>2, DeadlineParts
<1>. QED BY <1>7, <1>9, <1>10 DEF IInv

-----------------------------------------------------------------------------
(* An iteration that starts in IDLE                                        *)

\* What is known when the queue is looked at: q and cooldown are the queue and
\* the cooldown after the handler.
IdleContext(q, cooldown, run) ==
  /\ IInv
  /\ state_ = "IDLE"
  /\ incoming_queue_' = <<>>
  /\ UNCHANGED settings
  /\ run.took \in Nat /\ run.took <= HandlerTime
  /\ run.answered \in BOOLEAN
  /\ cooldown = CooldownAfter(run)
  /\ Accounts(q, tried)
  /\ outgoing_messages_ # <<>> =>
       q # <<>> /\ Head(q) = Head(outgoing_messages_)
  /\ outgoing_messages_ = <<>> /\ q # <<>> =>
       Head(q).number_of_retries = Head(q).granted

LEMMA IdleContextHolds ==
  ASSUME IInv, NEW arrived \in Arrivals, LoopIdle(arrived),
         NEW run \in MessageHandlerRuns(incoming_queue_ \o arrived)
  PROVE  IdleContext(outgoing_messages_ \o run.pushed, CooldownAfter(run), run)
<1>1. BOOLEAN \in SUBSET BOOLEAN
  OBVIOUS
<1>2. run \in HandlerRuns(BOOLEAN) \/ run = NoRun
  BY DEF MessageHandlerRuns
<1>3. /\ run.pushed \in Batches
      /\ run.answered \in BOOLEAN
      /\ run.took \in Nat /\ run.took <= HandlerTime
  BY <1>1, <1>2, RunFields
<1>4. Accounts(outgoing_messages_, tried) /\ tried \in Nat
  BY InvariantAccounts
<1>5. /\ Accounts(outgoing_messages_ \o run.pushed, tried)
      /\ outgoing_messages_ # <<>> =>
           /\ outgoing_messages_ \o run.pushed # <<>>
           /\ Head(outgoing_messages_ \o run.pushed) = Head(outgoing_messages_)
      /\ outgoing_messages_ = <<>> /\ outgoing_messages_ \o run.pushed # <<>> =>
           Head(outgoing_messages_ \o run.pushed).number_of_retries
             = Head(outgoing_messages_ \o run.pushed).granted
  BY <1>3, <1>4, PushKeepsAccounts
<1>6. state_ = "IDLE" /\ incoming_queue_' = <<>> /\ UNCHANGED settings
  BY DEF LoopIdle, IdleIteration
<1>. QED BY <1>3, <1>5, <1>6 DEF IdleContext

\* In IDLE, the oldest message has a try left or its writes failed.
LEMMA SpentIsUnsendable ==
  ASSUME NEW q, NEW cooldown, NEW run, IdleContext(q, cooldown, run),
         q # <<>>, Head(q).number_of_retries = 0
  PROVE  Head(q).msg \in Unsendable
<1>1. CASE outgoing_messages_ # <<>>
  BY <1>1 DEF IdleContext, IInv, TriesFitState
<1>2. CASE outgoing_messages_ = <<>>
  <2>1. Head(q) \in OutgoingQueueItem
    BY HeadTailProperties DEF IdleContext, Accounts
  <2>. QED BY <1>2, <2>1, ItemFields DEF IdleContext
<1>. QED BY <1>1, <1>2

\* The cooldown when the handler is the last to write, or nothing is written.
LEMMA IdleCooldown ==
  ASSUME NEW q, NEW cooldown, NEW run, IdleContext(q, cooldown, run),
         cooldown_left' = Left(cooldown, run.took),
         since_write' = IF run.answered THEN 0 ELSE Elapsed(since_write, run.took),
         gap' = IF run.answered THEN cooldown_interval_ ELSE gap
  PROVE  /\ cooldown_left' \in Int /\ cooldown_left' >= -1
         /\ since_write' \in 0..Horizon
         /\ gap' \in CooldownIntervals \cup {0}
         /\ CooldownCovers'
<1>. USE DEF IdleContext
<1>1. cooldown_interval_ \in Nat /\ cooldown_interval_ \in CooldownIntervals
  BY TimesAssumption DEF IInv, TypeOK
<1>2. CASE run.answered
  <2>1. cooldown_left' = cooldown_interval_
    BY <1>1, <1>2 DEF CooldownAfter, Left
  <2>2. since_write' = 0 /\ gap' = cooldown_interval_
    BY <1>2
  <2>. QED BY <1>1, <2>1, <2>2, TimesAssumption DEF CooldownCovers
<1>3. CASE ~run.answered
  <2>1. /\ cooldown_left' = Left(cooldown_left, run.took)
        /\ since_write' = Elapsed(since_write, run.took)
        /\ gap' = gap
    BY <1>3 DEF CooldownAfter
  <2>2. CooldownCovers'
    BY <2>1, CooldownAges
  <2>. QED BY <2>1, <2>2, TimesStayOK DEF IInv, TypeOK
<1>. QED BY <1>2, <1>3

LEMMA RestKeeps ==
  ASSUME NEW q, NEW cooldown, NEW run, IdleContext(q, cooldown, run),
         Rest(q, cooldown, run)
  PROVE  IInv'
<1>. USE DEF IdleContext
<1>1. /\ outgoing_messages_' = q
      /\ cooldown_left' = Left(cooldown, run.took)
      /\ answer_left' = Left(answer_left, run.took)
      /\ retry_left' = Left(retry_left, run.took)
      /\ since_write' = IF run.answered THEN 0 ELSE Elapsed(since_write, run.took)
      /\ since_try' = Elapsed(since_try, run.took)
      /\ gap' = IF run.answered THEN cooldown_interval_ ELSE gap
      /\ UNCHANGED <<state_, last_message_type_, tried, window,
                     answer_timeout_interval_, cooldown_interval_>>
  BY DEF Rest, settings
<1>2. /\ cooldown_left' \in Int /\ cooldown_left' >= -1
      /\ since_write' \in 0..Horizon
      /\ gap' \in CooldownIntervals \cup {0}
      /\ CooldownCovers'
  BY <1>1, IdleCooldown
<1>3. TypeOK' /\ TriesAddUp'
  <2>1. Accounts(outgoing_messages_', tried') /\ tried' \in Nat
    BY <1>1, InvariantAccounts
  <2>2. incoming_queue_' \in Seq(Frame)
    BY EmptySeq
  <2>. QED BY <1>1, <1>2, <2>1, <2>2, TimesStayOK
       DEF IInv, TypeOK, TriesAddUp, Accounts
<1>4. AwaitsTheOldest'
  BY <1>1 DEF AwaitsTheOldest
<1>5. TriesFitState'
  <2>1. tried > 0 => answer_left' < 0
    BY <1>1, TimesStayOK DEF IInv, TriesFitState
  <2>2. outgoing_messages_' # <<>> /\ Head(outgoing_messages_').number_of_retries = 0 =>
          Head(outgoing_messages_').msg \in Unsendable
    BY <1>1, SpentIsUnsendable
  <2>. QED BY <1>1, <2>1, <2>2 DEF TriesFitState
<1>6. DeadlinesCover'
  <2>1. tried > 0 => outgoing_messages_ # <<>>
    BY DEF IInv, TriesAddUp
  <2>2. AnswerCovers' /\ RetryCovers'
    BY <1>1, <2>1, TryAges
  <2>. QED BY <1>2, <2>2, DeadlineParts
<1>. QED BY <1>3, <1>4, <1>5, <1>6 DEF IInv

LEMMA RefuseKeeps ==
  ASSUME NEW q, NEW cooldown, NEW run, IdleContext(q, cooldown, run),
         NEW e \in 0..WriteTime, Refuse(q, cooldown, run, e)
  PROVE  IInv'
<1>. USE DEF IdleContext
<1>. DEFINE t == run.took + e
<1>1. /\ q # <<>>
      /\ Head(q).number_of_retries > 0
      /\ Head(q).msg \in Unsendable
      /\ outgoing_messages_' = UseTry(q)
      /\ cooldown_left' = cooldown_interval_
      /\ answer_left' = Left(answer_left, t)
      /\ retry_left' = Left(retry_left, t)
      /\ since_write' = 0
      /\ since_try' = Elapsed(since_try, t)
      /\ gap' = cooldown_interval_
      /\ UNCHANGED <<state_, last_message_type_, tried, window,
                     answer_timeout_interval_, cooldown_interval_>>
  BY DEF Refuse, Ready, settings
<1>2. t \in Nat
  BY TimesAssumption
<1>. HIDE DEF t
<1>3. tried = 0 /\ tried \in Nat
  BY <1>1 DEF Accounts
<1>4. /\ Accounts(UseTry(q), tried)
      /\ UseTry(q) # <<>>
      /\ Head(UseTry(q)).msg = Head(q).msg
  BY <1>1, <1>3, TryMovesOne
<1>5. TypeOK' /\ TriesAddUp'
  <2>1. Accounts(outgoing_messages_', tried') /\ tried' \in Nat
    BY <1>1, <1>3, <1>4
  <2>2. incoming_queue_' \in Seq(Frame) /\ since_write' \in 0..Horizon
    BY <1>1, EmptySeq, TimesAssumption
  <2>3. cooldown_left' \in Int /\ cooldown_left' >= -1
    BY <1>1, TimesAssumption DEF IInv, TypeOK
  <2>. QED BY <1>1, <1>2, <2>1, <2>2, <2>3, TimesStayOK
       DEF IInv, TypeOK, TriesAddUp, Accounts
<1>6. AwaitsTheOldest' /\ TriesFitState'
  BY <1>1, <1>3, <1>4 DEF AwaitsTheOldest, TriesFitState
<1>7. DeadlinesCover'
  <2>1. CooldownCovers'
    BY <1>1, TimesAssumption DEF CooldownCovers, IInv, TypeOK
  <2>2. AnswerCovers'
    BY <1>1, <1>2, TryAges
  <2>3. RetryCovers'
    BY <1>1, <1>3 DEF RetryCovers
  <2>. QED BY <2>1, <2>2, <2>3, DeadlineParts
<1>. QED BY <1>5, <1>6, <1>7 DEF IInv

LEMMA DiscardKeeps ==
  ASSUME NEW q, NEW cooldown, NEW run, IdleContext(q, cooldown, run),
         Discard(q, cooldown, run)
  PROVE  IInv'
<1>. USE DEF IdleContext
<1>1. /\ q # <<>>
      /\ outgoing_messages_' = Tail(q)
      /\ cooldown_left' = Left(cooldown, run.took)
      /\ answer_left' = Left(answer_left, run.took)
      /\ retry_left' = Left(0, run.took)
      /\ since_write' = IF run.answered THEN 0 ELSE Elapsed(since_write, run.took)
      /\ since_try' = Elapsed(since_try, run.took)
      /\ gap' = IF run.answered THEN cooldown_interval_ ELSE gap
      /\ tried' = 0
      /\ UNCHANGED <<state_, last_message_type_, window,
                     answer_timeout_interval_, cooldown_interval_>>
  BY DEF Discard, Ready, settings
<1>2. /\ cooldown_left' \in Int /\ cooldown_left' >= -1
      /\ since_write' \in 0..Horizon
      /\ gap' \in CooldownIntervals \cup {0}
      /\ CooldownCovers'
  BY <1>1, IdleCooldown
<1>3. /\ Accounts(outgoing_messages_', tried')
      /\ outgoing_messages_' # <<>> =>
           Head(outgoing_messages_').number_of_retries
             = Head(outgoing_messages_').granted
  BY <1>1, InvariantAccounts, PopRestartsAccounts
<1>4. TypeOK' /\ TriesAddUp'
  <2>1. incoming_queue_' \in Seq(Frame) /\ tried' \in Nat
    BY <1>1, EmptySeq
  <2>2. retry_left' \in Int /\ retry_left' >= -1
    BY <1>1 DEF Left
  <2>. QED BY <1>1, <1>2, <1>3, <2>1, <2>2, TimesStayOK
       DEF IInv, TypeOK, TriesAddUp, Accounts
<1>5. AwaitsTheOldest' /\ TriesFitState'
  <2>1. ~(tried' > 0) /\ state_' = "IDLE"
    BY <1>1
  <2>2. outgoing_messages_' # <<>> => Head(outgoing_messages_').number_of_retries # 0
    <3>1. outgoing_messages_' # <<>> => Head(outgoing_messages_') \in OutgoingQueueItem
      BY <1>3, HeadTailProperties DEF Accounts
    <3>. QED BY <1>3, <3>1, ItemFields
  <2>. QED BY <2>1, <2>2 DEF AwaitsTheOldest, TriesFitState
<1>6. DeadlinesCover'
  <2>1. AnswerCovers' /\ RetryCovers'
    BY <1>1 DEF AnswerCovers, RetryCovers
  <2>. QED BY <1>2, <2>1, DeadlineParts
<1>. QED BY <1>4, <1>5, <1>6 DEF IInv

\* The oldest message is written.  If it is a request, its deadlines are set
\* from the start of the iteration, t ago.
LEMMA TransmitKeeps ==
  ASSUME NEW q, NEW cooldown, NEW run, IdleContext(q, cooldown, run),
         NEW e \in 0..WriteTime, Transmit(q, cooldown, run, e)
  PROVE  IInv'
<1>. USE DEF IdleContext
<1>. DEFINE t == run.took + e
<1>1. /\ q # <<>>
      /\ Head(q).number_of_retries > 0
      /\ Head(q).msg \notin Unsendable
      /\ last_message_type_' = Head(q).msg
      /\ cooldown_left' = cooldown_interval_
      /\ since_write' = 0
      /\ since_try' = 0
      /\ gap' = cooldown_interval_
      /\ UNCHANGED <<answer_timeout_interval_, cooldown_interval_>>
  BY DEF Transmit, Ready, settings
<1>2. t \in Nat /\ t <= LoopTime /\ LoopTime \in Nat
  BY TimesAssumption DEF LoopTime
<1>3. tried \in Nat /\ q \in Seq(OutgoingQueueItem)
  BY DEF IInv, TypeOK, Accounts
<1>4. Head(q) \in OutgoingQueueItem
  BY <1>1, <1>3, HeadTailProperties
<1>5. /\ Head(q).msg \in Message
      /\ Head(q).retry_interval \in Nat
      /\ cooldown_interval_ \in Nat /\ cooldown_interval_ \in CooldownIntervals
      /\ answer_timeout_interval_ \in Nat
      /\ answer_timeout_interval_ \in AnswerTimeouts
  <2>1. Head(q).msg \in Message /\ Head(q).retry_interval \in Nat
    BY <1>4, ItemFields, IntervalsEnd
  <2>. QED BY <2>1, TimesAssumption DEF IInv, TypeOK
<1>6. CooldownCovers'
  BY <1>1, <1>5 DEF CooldownCovers
<1>7. /\ incoming_queue_' \in Seq(Frame)
      /\ since_write' \in 0..Horizon /\ since_try' \in 0..Horizon
      /\ cooldown_left' \in Int /\ cooldown_left' >= -1
  BY <1>1, <1>5, EmptySeq, TimesAssumption
<1>8. CASE Head(q).no_answer
  <2>1. /\ outgoing_messages_' = Tail(q)
        /\ retry_left' = Left(0, t)
        /\ answer_left' = Left(answer_left, t)
        /\ tried' = 0
        /\ UNCHANGED <<state_, window>>
    BY <1>8 DEF Transmit
  <2>. HIDE DEF t
  <2>2. /\ Accounts(outgoing_messages_', tried')
        /\ outgoing_messages_' # <<>> =>
             Head(outgoing_messages_').number_of_retries
               = Head(outgoing_messages_').granted
    BY <1>1, <1>3, <2>1, PopRestartsAccounts
  <2>3. TypeOK' /\ TriesAddUp'
    <3>1. retry_left' \in Int /\ retry_left' >= -1
      BY <1>2, <2>1 DEF Left
    <3>. QED BY <1>1, <1>2, <1>5, <1>7, <2>1, <2>2, <3>1, TimesStayOK
         DEF IInv, TypeOK, TriesAddUp, Accounts
  <2>4. AwaitsTheOldest' /\ TriesFitState'
    <3>1. ~(tried' > 0) /\ state_' = "IDLE"
      BY <2>1
    <3>2. outgoing_messages_' # <<>> => Head(outgoing_messages_').number_of_retries # 0
      <4>1. outgoing_messages_' # <<>> => Head(outgoing_messages_') \in OutgoingQueueItem
        BY <2>2, HeadTailProperties DEF Accounts
      <4>. QED BY <2>2, <4>1, ItemFields
    <3>. QED BY <3>1, <3>2 DEF AwaitsTheOldest, TriesFitState
  <2>5. AnswerCovers' /\ RetryCovers'
    BY <2>1 DEF AnswerCovers, RetryCovers
  <2>. QED BY <1>6, <2>3, <2>4, <2>5, DeadlineParts DEF IInv
<1>9. CASE ~Head(q).no_answer
  <2>1. /\ outgoing_messages_' = UseTry(q)
        /\ state_' = "WAITING_FOR_ANSWER"
        /\ answer_left' = Left(answer_timeout_interval_, t)
        /\ retry_left' = Left(Head(q).retry_interval, t)
        /\ tried' = tried + 1
        /\ window' = answer_timeout_interval_
    BY <1>9 DEF Transmit
  <2>. HIDE DEF t
  <2>2. /\ Accounts(UseTry(q), tried + 1)
        /\ UseTry(q) # <<>>
        /\ Head(UseTry(q)).msg = Head(q).msg
        /\ Head(UseTry(q)).no_answer = Head(q).no_answer
        /\ Head(UseTry(q)).retry_interval = Head(q).retry_interval
    BY <1>1, <1>3, TryMovesOne
  <2>3. /\ answer_left' \in Int /\ answer_left' >= -1
        /\ answer_left' + t >= answer_timeout_interval_
        /\ answer_left' <= answer_timeout_interval_
    BY <1>2, <1>5, <2>1, LeftShrinks
  <2>4. /\ retry_left' \in Int /\ retry_left' >= -1
        /\ retry_left' + t >= Head(q).retry_interval
    <3>1. \A left \in Nat : /\ Left(left, t) \in Int /\ Left(left, t) >= -1
                             /\ Left(left, t) + t >= left
      BY <1>2 DEF Left
    <3>. QED BY <1>5, <2>1, <3>1
  <2>5. TypeOK' /\ TriesAddUp'
    BY <1>1, <1>3, <1>5, <1>7, <2>1, <2>2, <2>3, <2>4, SMTT(30)
    DEF IInv, TypeOK, TriesAddUp, Accounts
  <2>6. AwaitsTheOldest' /\ TriesFitState'
    BY <1>1, <1>3, <1>9, <2>1, <2>2 DEF AwaitsTheOldest, TriesFitState
  <2>7. AnswerCovers'
    BY <1>1, <1>2, <1>5, <2>1, <2>3 DEF AnswerCovers, LoopTime
  <2>8. RetryCovers'
    <3>1. Head(outgoing_messages_').retry_interval = Head(q).retry_interval
      BY <2>1, <2>2
    <3>2. LoopTime + retry_left' >= Head(q).retry_interval
      BY <1>2, <1>5, <2>4
    <3>3. since_try' + LoopTime + retry_left' = LoopTime + retry_left'
      BY <1>1, <1>2, <2>4
    <3>. QED BY <3>1, <3>2, <3>3 DEF RetryCovers
  <2>. QED BY <1>6, <2>5, <2>6, <2>7, <2>8, DeadlineParts DEF IInv
<1>. QED BY <1>8, <1>9 DEF OutgoingQueueItem

LEMMA IdleKeeps ==
  ASSUME IInv, NEW arrived \in Arrivals, LoopIdle(arrived)
  PROVE  IInv'
<1>1. PICK run \in MessageHandlerRuns(incoming_queue_ \o arrived) :
        LET q == outgoing_messages_ \o run.pushed
            cooldown == CooldownAfter(run)
        IN  \/ Rest(q, cooldown, run)
            \/ \E e \in 0..WriteTime : Transmit(q, cooldown, run, e)
            \/ \E e \in 0..WriteTime : Refuse(q, cooldown, run, e)
            \/ Discard(q, cooldown, run)
  BY DEF LoopIdle, IdleIteration
<1>2. IdleContext(outgoing_messages_ \o run.pushed, CooldownAfter(run), run)
  BY IdleContextHolds
<1>. QED BY <1>1, <1>2, RestKeeps, TransmitKeeps, RefuseKeeps, DiscardKeeps

-----------------------------------------------------------------------------
(* Every step                                                              *)

LEMMA NextKeeps == IInv /\ [Next]_vars => IInv'
<1>. SUFFICES ASSUME IInv, [Next]_vars PROVE IInv'
  OBVIOUS
<1>1. ASSUME NEW arrived \in Arrivals, LoopIdle(arrived) PROVE IInv'
  BY <1>1, IdleKeeps
<1>2. ASSUME NEW arrived \in Arrivals, LoopExpire(arrived) PROVE IInv'
  BY <1>2, FinishKeeps, ArrivalsAreFrames DEF LoopExpire, ExpireIteration, IInv, TypeOK
<1>3. ASSUME NEW arrived \in Arrivals, LoopRetry(arrived) PROVE IInv'
  BY <1>3, RetryKeeps
<1>4. ASSUME NEW arrived \in Arrivals, LoopAnswer(arrived) PROVE IInv'
  <2>1. incoming_queue_' \in Seq(Frame)
    <3>1. incoming_queue_ \o arrived \in Seq(Frame)
      BY ArrivalsAreFrames DEF IInv, TypeOK
    <3>. QED BY <1>4, <3>1, HeadTailProperties DEF LoopAnswer, AnswerIteration
  <2>. QED BY <1>4, <2>1, FinishKeeps DEF LoopAnswer, AnswerIteration
<1>5. ASSUME LoopWait PROVE IInv'
  BY <1>5, SettingsKeep DEF LoopWait, IInv, TypeOK, settings
<1>6. ASSUME NEW m \in Message, NEW n \in Repeats, NEW i \in RetryIntervals,
             send_message(m, n, i)
      PROVE  IInv'
  <2>1. Request(m, n, i) \in Submissions
    BY <1>6 DEF send_message, Submissions
  <2>. QED BY <1>6, <2>1, EnqueueKeeps DEF send_message
<1>7. ASSUME NEW m \in Message, send_message_without_answer(m) PROVE IInv'
  <2>1. Notification(m) \in Submissions
    BY <1>7 DEF send_message_without_answer, Submissions
  <2>. QED BY <1>7, <2>1, EnqueueKeeps DEF send_message_without_answer
<1>8. ASSUME NEW i \in AnswerTimeouts, set_answer_timeout(i) PROVE IInv'
  BY <1>8, SettingsKeep DEF set_answer_timeout, IInv, TypeOK
<1>9. ASSUME NEW i \in CooldownIntervals, set_cooldown_interval(i) PROVE IInv'
  BY <1>9, SettingsKeep DEF set_cooldown_interval, IInv, TypeOK
<1>10. ASSUME Tick PROVE IInv'
  BY <1>10, TickKeeps
<1>11. ASSUME UNCHANGED vars PROVE IInv'
  BY <1>11, SettingsKeep DEF vars, settings, IInv, TypeOK
<1>. QED BY <1>1, <1>2, <1>3, <1>4, <1>5, <1>6, <1>7, <1>8, <1>9, <1>10, <1>11
     DEF Next, loop

\* The inductive invariant holds in every reachable state.
THEOREM Invariant == Spec => []IInv
BY InitEstablishes, NextKeeps, PTL DEF Spec

\* The state is always well typed.
THEOREM TypeCorrect == Spec => []TypeOK
BY Invariant, PTL DEF IInv

\* While an answer is awaited, the oldest queued message is the request that
\* last_message_type_ names: lines 117 and 154 never reach an empty queue.
THEOREM AwaitsTheOldestAlways == Spec => []AwaitsTheOldest
BY Invariant, PTL DEF IInv

\* The tries of the queued messages always add up to those granted.
THEOREM TriesAlwaysAddUp == Spec => []TriesAddUp
BY Invariant, PTL DEF IInv

-----------------------------------------------------------------------------
(* The action properties                                                   *)

\* What a step that is not an iteration shows: nothing new.
LEMMA OtherStepsAreSilent ==
  ASSUME [Next]_vars, ~UNCHANGED vars,
         \A arrived \in Arrivals : ~LoopIdle(arrived),
         \A arrived \in Arrivals : ~LoopExpire(arrived),
         \A arrived \in Arrivals : ~LoopAnswer(arrived)
  PROVE  calls' = {}
BY DEF Next, loop, LoopRetry, LoopWait, send_message, send_message_without_answer,
       Enqueue, set_answer_timeout, set_cooldown_interval, Tick

\* What an iteration shows that ends a request.
LEMMA AnsweredOrExpired ==
  ASSUME NEW arrived, LoopExpire(arrived) \/ LoopAnswer(arrived)
  PROVE  \/ /\ calls' = {Call("expire", last_message_type_)}
            /\ LoopExpire(arrived)
         \/ /\ calls' = {Call("answered", last_message_type_)}
            /\ LoopAnswer(arrived)
BY DEF LoopExpire, ExpireIteration, LoopAnswer, AnswerIteration, Finish

\* Calls of an iteration in IDLE, in terms of the queue after the handler.
IdleCalls(q, cooldown, run) ==
  /\ IdleContext(q, cooldown, run)
  /\ \/ calls' = SeenCalls(run)
     \/ /\ calls' = SeenCalls(run) \cup {Call("drop", Head(q).msg)}
        /\ q # <<>> /\ Head(q).number_of_retries = 0
     \/ /\ calls' = SeenCalls(run) \cup
                     {Call(IF Head(q).no_answer THEN "notify" ELSE "request",
                           Head(q).msg)}
        /\ Ready(q, cooldown)

LEMMA IdleCallsHold ==
  ASSUME IInv, NEW arrived \in Arrivals, LoopIdle(arrived)
  PROVE  \E run : IdleCalls(outgoing_messages_ \o run.pushed, CooldownAfter(run), run)
<1>1. PICK run \in MessageHandlerRuns(incoming_queue_ \o arrived) :
        LET q == outgoing_messages_ \o run.pushed
            cooldown == CooldownAfter(run)
        IN  \/ Rest(q, cooldown, run)
            \/ \E e \in 0..WriteTime : Transmit(q, cooldown, run, e)
            \/ \E e \in 0..WriteTime : Refuse(q, cooldown, run, e)
            \/ Discard(q, cooldown, run)
  BY DEF LoopIdle, IdleIteration
<1>2. IdleContext(outgoing_messages_ \o run.pushed, CooldownAfter(run), run)
  BY IdleContextHolds
<1>. DEFINE q == outgoing_messages_ \o run.pushed
            cooldown == CooldownAfter(run)
<1>. HIDE DEF q, cooldown
<1>3. ASSUME Rest(q, cooldown, run) PROVE calls' = SeenCalls(run)
  BY <1>3 DEF Rest
<1>4. ASSUME NEW e \in 0..WriteTime, Refuse(q, cooldown, run, e)
      PROVE  calls' = SeenCalls(run)
  BY <1>4 DEF Refuse
<1>5. ASSUME Discard(q, cooldown, run)
      PROVE  /\ calls' = SeenCalls(run) \cup {Call("drop", Head(q).msg)}
             /\ q # <<>> /\ Head(q).number_of_retries = 0
  BY <1>5 DEF Discard, Ready
<1>6. ASSUME NEW e \in 0..WriteTime, Transmit(q, cooldown, run, e)
      PROVE  /\ calls' = SeenCalls(run) \cup
                           {Call(IF Head(q).no_answer THEN "notify" ELSE "request",
                                 Head(q).msg)}
             /\ Ready(q, cooldown)
  BY <1>6 DEF Transmit
<1>7. IdleCalls(q, cooldown, run)
  BY <1>1, <1>2, <1>3, <1>4, <1>5, <1>6 DEF IdleCalls, q, cooldown
<1>. QED BY <1>7 DEF q, cooldown

\* A message that can be written is never dropped without a word.
THEOREM NoSilentDrop == Spec => DropsOnlyUnsendable
<1>1. IInv /\ [Next]_vars => [DropIsForced]_vars
  <2>. SUFFICES ASSUME IInv, [Next]_vars, ~UNCHANGED vars,
                       NEW m \in Message, Call("drop", m) \in calls'
                PROVE  m \in Unsendable
    BY DEF DropIsForced
  <2>1. ASSUME NEW arrived \in Arrivals, LoopIdle(arrived)
        PROVE  m \in Unsendable
    <3>1. PICK run : IdleCalls(outgoing_messages_ \o run.pushed, CooldownAfter(run), run)
      BY <2>1, IdleCallsHold
    <3>. DEFINE q == outgoing_messages_ \o run.pushed
    <3>2. q # <<>> /\ Head(q).number_of_retries = 0 /\ m = Head(q).msg
      BY <3>1 DEF IdleCalls, SeenCalls, Answering, Call
    <3>. QED BY <3>1, <3>2, SpentIsUnsendable DEF IdleCalls
  <2>2. ASSUME NEW arrived \in Arrivals, LoopExpire(arrived) \/ LoopAnswer(arrived)
        PROVE  FALSE
    BY <2>2, AnsweredOrExpired DEF Call
  <2>. QED BY <2>1, <2>2, OtherStepsAreSilent
<1>. QED BY <1>1, Invariant, PTL DEF Spec, DropsOnlyUnsendable

\* No queued message is written before the last write's cooldown is over.
THEOREM CooldownIsRespected == Spec => CooldownRespected
<1>1. IInv /\ [Next]_vars => [WriteIsCool]_vars
  <2>. SUFFICES ASSUME IInv, [Next]_vars, ~UNCHANGED vars,
                       NEW m \in Message, Writes(m)
                PROVE  IF Answering \in calls' THEN cooldown_interval_ = 0
                                               ELSE since_write >= gap
    BY DEF WriteIsCool
  <2>1. Call("request", m) \in calls' \/ Call("notify", m) \in calls'
    BY DEF Writes
  <2>2. ASSUME NEW arrived \in Arrivals, LoopIdle(arrived)
        PROVE  IF Answering \in calls' THEN cooldown_interval_ = 0
                                       ELSE since_write >= gap
    <3>1. PICK run : IdleCalls(outgoing_messages_ \o run.pushed, CooldownAfter(run), run)
      BY <2>2, IdleCallsHold
    <3>2. Ready(outgoing_messages_ \o run.pushed, CooldownAfter(run))
      BY <2>1, <3>1 DEF IdleCalls, SeenCalls, Answering, Call
    <3>3. CooldownAfter(run) <= 0
      BY <3>2 DEF Ready
    <3>4. run.answered \in BOOLEAN /\ run.took \in Nat
      BY <3>1 DEF IdleCalls, IdleContext
    <3>5. CASE run.answered
      <4>1. cooldown_interval_ \in Nat
        BY TimesAssumption DEF IInv, TypeOK
      <4>2. cooldown_interval_ = 0
        BY <3>3, <3>4, <3>5, <4>1 DEF CooldownAfter
      <4>3. Answering \in calls'
        BY <3>1, <3>5 DEF IdleCalls, SeenCalls
      <4>. QED BY <4>2, <4>3
    <3>6. CASE ~run.answered
      <4>1. Answering \notin calls'
        BY <3>1, <3>6 DEF IdleCalls, SeenCalls, Answering, Call
      <4>2. cooldown_left <= 0
        BY <3>3, <3>6 DEF CooldownAfter
      <4>3. gap \in Nat /\ since_write \in Nat /\ cooldown_left \in Int
        BY IntervalsEnd DEF IInv, TypeOK
      <4>4. since_write >= gap
        BY <4>2, <4>3 DEF IInv, DeadlinesCover
      <4>. QED BY <4>1, <4>4
    <3>. QED BY <3>4, <3>5, <3>6
  <2>3. ASSUME NEW arrived \in Arrivals, LoopExpire(arrived) \/ LoopAnswer(arrived)
        PROVE  FALSE
    BY <2>1, <2>3, AnsweredOrExpired DEF Call
  <2>. QED BY <2>1, <2>2, <2>3, OtherStepsAreSilent
<1>. QED BY <1>1, Invariant, PTL DEF Spec, CooldownRespected

\* A request is given up, or written again, only after its peer had the time
\* to answer, and expires only with all its tries made.
THEOREM GivesUpPatiently == Spec => PatientWithPeer
<1>1. IInv /\ [Next]_vars => [GivesUpInTime]_vars
  <2>. SUFFICES ASSUME IInv, [Next]_vars, ~UNCHANGED vars, NEW m \in Message
                PROVE  LET oldest == Head(outgoing_messages_)
                       IN  /\ Call("expire", m) \in calls' =>
                                tried = oldest.granted /\ since_try + LoopTime > window
                           /\ Call("request", m) \in calls' /\ tried > 0 =>
                                /\ since_try + LoopTime > window
                                /\ since_try + LoopTime >= oldest.retry_interval
    BY DEF GivesUpInTime
  <2>1. /\ LoopTime \in Nat /\ window \in Nat
        /\ tried \in Nat /\ since_try \in Nat
        /\ answer_left \in Int /\ retry_left \in Int
    BY TimesAssumption, IntervalsEnd DEF IInv, TypeOK, LoopTime
  <2>2. tried > 0 => outgoing_messages_ # <<>>
    BY DEF IInv, TriesAddUp
  <2>3. outgoing_messages_ # <<>> =>
          /\ Head(outgoing_messages_).retry_interval \in Nat
          /\ Head(outgoing_messages_).number_of_retries \in Nat
          /\ Head(outgoing_messages_).granted \in Nat
    <3>1. outgoing_messages_ # <<>> => Head(outgoing_messages_) \in OutgoingQueueItem
      BY HeadTailProperties DEF IInv, TypeOK
    <3>. QED BY <3>1, ItemFields, IntervalsEnd
  <2>4. ASSUME tried > 0, answer_left < 0
        PROVE  since_try + LoopTime > window
    BY <2>1, <2>4 DEF IInv, DeadlinesCover
  <2>5. ASSUME Call("expire", m) \in calls'
        PROVE  /\ tried = Head(outgoing_messages_).granted
               /\ since_try + LoopTime > window
    <3>1. PICK arrived \in Arrivals : LoopExpire(arrived)
      <4>1. ASSUME NEW arrived \in Arrivals, LoopIdle(arrived) PROVE FALSE
        <5>1. PICK run : IdleCalls(outgoing_messages_ \o run.pushed,
                                   CooldownAfter(run), run)
          BY <4>1, IdleCallsHold
        <5>. QED BY <2>5, <5>1 DEF IdleCalls, SeenCalls, Answering, Call
      <4>2. ASSUME NEW arrived \in Arrivals, LoopAnswer(arrived)
            PROVE  LoopExpire(arrived)
        BY <2>5, <4>2, AnsweredOrExpired DEF Call
      <4>. QED BY <2>5, <4>1, <4>2, OtherStepsAreSilent
    <3>2. /\ state_ = "WAITING_FOR_ANSWER"
          /\ answer_left < 0
          /\ Head(outgoing_messages_).number_of_retries = 0
      BY <3>1 DEF LoopExpire, ExpireIteration
    <3>3. /\ tried > 0
          /\ outgoing_messages_ # <<>>
          /\ Head(outgoing_messages_).msg \notin Unsendable
      BY <3>2 DEF IInv, TriesFitState, AwaitsTheOldest
    <3>4. Head(outgoing_messages_).number_of_retries + tried
            = Head(outgoing_messages_).granted
      BY <3>3 DEF IInv, TriesAddUp
    <3>. QED BY <2>1, <2>3, <2>4, <3>2, <3>3, <3>4
  <2>6. ASSUME Call("request", m) \in calls', tried > 0
        PROVE  /\ since_try + LoopTime > window
               /\ since_try + LoopTime >= Head(outgoing_messages_).retry_interval
    <3>1. PICK arrived \in Arrivals : LoopIdle(arrived)
      <4>1. ASSUME NEW arrived \in Arrivals, LoopExpire(arrived) \/ LoopAnswer(arrived)
            PROVE  FALSE
        BY <2>6, <4>1, AnsweredOrExpired DEF Call
      <4>. QED BY <2>6, <4>1, OtherStepsAreSilent
    <3>2. PICK run : IdleCalls(outgoing_messages_ \o run.pushed, CooldownAfter(run), run)
      BY <3>1, IdleCallsHold
    <3>3. Ready(outgoing_messages_ \o run.pushed, CooldownAfter(run))
      BY <2>6, <3>2 DEF IdleCalls, SeenCalls, Answering, Call
    <3>4. retry_left <= 0 /\ state_ = "IDLE"
      BY <3>1, <3>3 DEF Ready, LoopIdle, IdleIteration
    <3>5. answer_left < 0
      BY <2>6, <3>4 DEF IInv, TriesFitState
    <3>6. since_try + LoopTime >= Head(outgoing_messages_).retry_interval
      BY <2>1, <2>2, <2>3, <2>6, <3>4 DEF IInv, DeadlinesCover
    <3>. QED BY <2>4, <2>6, <3>5, <3>6
  <2>. QED BY <2>5, <2>6
<1>. QED BY <1>1, Invariant, PTL DEF Spec, PatientWithPeer

\* An answer handler runs only for a request that was written, and in time.
THEOREM AnswersAreTimely == Spec => AnswersInTime
<1>1. IInv /\ [Next]_vars => [AnswerIsTimely]_vars
  <2>. SUFFICES ASSUME IInv, [Next]_vars, ~UNCHANGED vars,
                       NEW m \in Message, Call("answered", m) \in calls'
                PROVE  tried > 0 /\ since_try <= window
    BY DEF AnswerIsTimely
  <2>1. PICK arrived \in Arrivals : LoopAnswer(arrived)
    <3>1. ASSUME NEW arrived \in Arrivals, LoopIdle(arrived) PROVE FALSE
      <4>1. PICK run : IdleCalls(outgoing_messages_ \o run.pushed,
                                 CooldownAfter(run), run)
        BY <3>1, IdleCallsHold
      <4>. QED BY <4>1 DEF IdleCalls, SeenCalls, Answering, Call
    <3>2. ASSUME NEW arrived \in Arrivals, LoopExpire(arrived)
          PROVE  LoopAnswer(arrived)
      BY <3>2, AnsweredOrExpired DEF Call
    <3>. QED BY <3>1, <3>2, OtherStepsAreSilent
  <2>2. state_ = "WAITING_FOR_ANSWER" /\ answer_left >= 0
    BY <2>1 DEF LoopAnswer, AnswerIteration
  <2>3. since_try + answer_left <= window /\ tried > 0
    BY <2>2 DEF IInv, DeadlinesCover, TriesFitState
  <2>4. since_try \in Nat /\ window \in Nat /\ answer_left \in Int
    BY IntervalsEnd DEF IInv, TypeOK
  <2>. QED BY <2>2, <2>3, <2>4
<1>. QED BY <1>1, Invariant, PTL DEF Spec, AnswersInTime

-----------------------------------------------------------------------------
(* ProtocolHandler implements RequestQueue                                 *)

\* What an application sees of its messages is a queue that keeps order and tries,
\* whatever handlers, clock and peer do.  View is the refinement mapping of a queue.
\* It commutes with each queue operation, so that each way through loop() becomes one
\* action of RequestQueue; AwaitsTheOldest makes the message that a handler is told
\* about the oldest of that queue.

\* What RequestQueue keeps of an entry, and of a queue.
ViewOf(item) == [msg |-> item.msg, wants_answer |-> ~item.no_answer,
                 left |-> item.number_of_retries]
View(q) == [i \in DOMAIN q |-> ViewOf(q[i])]

Finals == {"answered", "expire", "notify", "drop"}

LEMMA PendingIsView == Pending = View(outgoing_messages_)
  BY DEF Pending, View, ViewOf

-----------------------------------------------------------------------------
(* The mapping and the queue operations                                    *)

LEMMA ViewOfItem ==
  ASSUME NEW item \in OutgoingQueueItem
  PROVE  /\ ViewOf(item) \in Queue!Entry
         /\ ViewOf(item).msg = item.msg
         /\ ViewOf(item).left = item.number_of_retries
         /\ ViewOf(item).wants_answer = ~item.no_answer
<1>1. item.number_of_retries \in 0 .. MAX_PACKET_RETRIES + 1
  BY DEF OutgoingQueueItem, Tries
<1>2. item.msg \in Message /\ (~item.no_answer) \in BOOLEAN
  BY DEF OutgoingQueueItem
<1>. QED
  BY <1>1, <1>2 DEF ViewOf, Queue!Entry

LEMMA ViewIsQueue ==
  ASSUME NEW q \in Seq(OutgoingQueueItem)
  PROVE  /\ View(q) \in Seq(Queue!Entry)
         /\ Len(View(q)) = Len(q)
         /\ \A i \in 1 .. Len(q) : View(q)[i] = ViewOf(q[i])
         /\ q = <<>> <=> View(q) = <<>>
         /\ q # <<>> => Head(View(q)) = ViewOf(Head(q)) /\ Head(q) \in OutgoingQueueItem
<1>1. DOMAIN q = 1 .. Len(q) /\ Len(q) \in Nat
  BY LenProperties
<1>2. \A i \in 1 .. Len(q) : ViewOf(q[i]) \in Queue!Entry
  BY ElementOfSeq, ViewOfItem
<1>3. View(q) = [i \in 1 .. Len(q) |-> ViewOf(q[i])]
  BY <1>1 DEF View
<1>4. View(q) \in Seq(Queue!Entry) /\ Len(View(q)) = Len(q)
  BY <1>1, <1>2, <1>3, SeqDef
<1>5. \A i \in 1 .. Len(q) : View(q)[i] = ViewOf(q[i])
  BY <1>3
<1>6. q = <<>> <=> View(q) = <<>>
  BY <1>4, EmptySeq
<1>7. ASSUME q # <<>>
      PROVE  Head(View(q)) = ViewOf(Head(q)) /\ Head(q) \in OutgoingQueueItem
  BY <1>1, <1>4, <1>5, <1>6, <1>7, HeadTailProperties
<1>. QED
  BY <1>4, <1>5, <1>6, <1>7

LEMMA ViewOfConcat ==
  ASSUME NEW q \in Seq(OutgoingQueueItem), NEW p \in Seq(OutgoingQueueItem)
  PROVE  View(q \o p) = View(q) \o View(p)
<1>. DEFINE both == q \o p
            view == View(q) \o View(p)
<1>1. /\ both \in Seq(OutgoingQueueItem) /\ Len(both) = Len(q) + Len(p)
      /\ \A i \in 1 .. Len(q) + Len(p) : both[i] = IF i <= Len(q) THEN q[i] ELSE p[i - Len(q)]
  BY ConcatProperties
<1>2. /\ View(q) \in Seq(Queue!Entry) /\ Len(View(q)) = Len(q)
      /\ \A i \in 1 .. Len(q) : View(q)[i] = ViewOf(q[i])
      /\ View(p) \in Seq(Queue!Entry) /\ Len(View(p)) = Len(p)
      /\ \A i \in 1 .. Len(p) : View(p)[i] = ViewOf(p[i])
      /\ Len(q) \in Nat /\ Len(p) \in Nat
  BY ViewIsQueue, LenProperties
<1>3. /\ view \in Seq(Queue!Entry) /\ Len(view) = Len(View(q)) + Len(View(p))
      /\ \A i \in 1 .. Len(View(q)) + Len(View(p)) :
           view[i] = IF i <= Len(View(q)) THEN View(q)[i] ELSE View(p)[i - Len(View(q))]
  <2>. DEFINE x == View(q)
              y == View(p)
  <2>1. x \in Seq(Queue!Entry) /\ y \in Seq(Queue!Entry)
    BY <1>2
  <2>. HIDE DEF x, y
  <2>2. /\ x \o y \in Seq(Queue!Entry) /\ Len(x \o y) = Len(x) + Len(y)
        /\ \A i \in 1 .. Len(x) + Len(y) :
             (x \o y)[i] = IF i <= Len(x) THEN x[i] ELSE y[i - Len(x)]
    BY <2>1, ConcatProperties
  <2>. QED
    BY <2>2 DEF x, y
<1>. HIDE DEF both, view
<1>4. /\ View(both) \in Seq(Queue!Entry) /\ Len(View(both)) = Len(both)
      /\ \A i \in 1 .. Len(both) : View(both)[i] = ViewOf(both[i])
  BY <1>1, ViewIsQueue
<1>5. ASSUME NEW i \in 1 .. Len(both) PROVE View(both)[i] = view[i]
  <2>1. CASE i <= Len(q)
    <3>1. i \in 1 .. Len(q) /\ i \in 1 .. Len(q) + Len(p)
      BY <1>1, <1>2, <2>1
    <3>2. both[i] = q[i] /\ view[i] = View(q)[i]
      BY <1>1, <1>2, <1>3, <2>1, <3>1
    <3>. QED
      BY <1>2, <1>4, <3>1, <3>2
  <2>2. CASE ~(i <= Len(q))
    <3>1. i - Len(q) \in 1 .. Len(p) /\ i \in 1 .. Len(q) + Len(p)
      BY <1>1, <1>2, <2>2
    <3>2. both[i] = p[i - Len(q)] /\ view[i] = View(p)[i - Len(q)]
      BY <1>1, <1>2, <1>3, <2>2, <3>1
    <3>. QED
      BY <1>2, <1>4, <3>1, <3>2
  <2>. QED
    BY <2>1, <2>2
<1>6. View(both) = view
  BY <1>1, <1>2, <1>3, <1>4, <1>5, SeqEqual
<1>. QED
  BY <1>6 DEF both, view

LEMMA ViewOfTail ==
  ASSUME NEW q \in Seq(OutgoingQueueItem), q # <<>>
  PROVE  View(Tail(q)) = Tail(View(q))
<1>1. /\ Tail(q) \in Seq(OutgoingQueueItem) /\ Len(Tail(q)) = Len(q) - 1
      /\ \A i \in 1 .. Len(Tail(q)) : Tail(q)[i] = q[i + 1]
  BY HeadTailProperties
<1>2. /\ View(q) \in Seq(Queue!Entry) /\ Len(View(q)) = Len(q) /\ View(q) # <<>>
      /\ \A i \in 1 .. Len(q) : View(q)[i] = ViewOf(q[i])
      /\ Len(q) \in Nat
  BY ViewIsQueue, LenProperties
<1>3. /\ Tail(View(q)) \in Seq(Queue!Entry) /\ Len(Tail(View(q))) = Len(q) - 1
      /\ \A i \in 1 .. Len(Tail(View(q))) : Tail(View(q))[i] = View(q)[i + 1]
  BY <1>2, HeadTailProperties
<1>4. /\ View(Tail(q)) \in Seq(Queue!Entry) /\ Len(View(Tail(q))) = Len(Tail(q))
      /\ \A i \in 1 .. Len(Tail(q)) : View(Tail(q))[i] = ViewOf(Tail(q)[i])
  BY <1>1, ViewIsQueue
<1>5. ASSUME NEW i \in 1 .. Len(q) - 1 PROVE View(Tail(q))[i] = Tail(View(q))[i]
  <2>1. i + 1 \in 1 .. Len(q)
    BY <1>2
  <2>. QED
    BY <1>1, <1>2, <1>3, <1>4, <2>1
<1>. QED
  BY <1>1, <1>3, <1>4, <1>5, SeqEqual

LEMMA OneTryLess ==
  ASSUME NEW item, item \in OutgoingQueueItem, item.number_of_retries > 0
  PROVE  LET used == [item EXCEPT !.number_of_retries = @ - 1]
         IN  /\ used \in OutgoingQueueItem
             /\ used.msg = item.msg /\ used.no_answer = item.no_answer
             /\ used.number_of_retries = item.number_of_retries - 1
<1>1. [item EXCEPT !.number_of_retries = @ - 1] \in OutgoingQueueItem
  BY LimitsAssumption DEF OutgoingQueueItem, Tries
<1>. QED
  BY <1>1 DEF OutgoingQueueItem

\* The try that the oldest message uses up is the only change of the view.
LEMMA ViewOfTry ==
  ASSUME NEW q \in Seq(OutgoingQueueItem), q # <<>>, Head(q).number_of_retries > 0
  PROVE  View(UseTry(q)) = [View(q) EXCEPT ![1].left = @ - 1]
<1>. DEFINE used == [q[1] EXCEPT !.number_of_retries = @ - 1]
            r == UseTry(q)
            mapped == [View(q)[1] EXCEPT !.left = @ - 1]
<1>1. /\ Len(q) \in Nat /\ Len(q) >= 1 /\ q[1] \in OutgoingQueueItem
      /\ q[1].number_of_retries > 0
  BY EmptySeq, LenProperties, HeadTailProperties, ElementOfSeq
<1>2. used \in OutgoingQueueItem
  BY <1>1, OneTryLess, Zenon
<1>3. /\ used.msg = q[1].msg /\ used.no_answer = q[1].no_answer
      /\ used.number_of_retries = q[1].number_of_retries - 1
  BY <1>1, OneTryLess, Zenon
<1>4. /\ r \in Seq(OutgoingQueueItem) /\ Len(r) = Len(q) /\ r[1] = used
      /\ \A i \in 2 .. Len(q) : r[i] = q[i]
  <2>1. r = [q EXCEPT ![1] = used]
    BY <1>1 DEF UseTry
  <2>. QED
    BY <1>1, <1>2, <2>1, ExceptSeq
<1>. HIDE DEF r, used
<1>5. /\ View(q) \in Seq(Queue!Entry) /\ Len(View(q)) = Len(q)
      /\ \A i \in 1 .. Len(q) : View(q)[i] = ViewOf(q[i])
      /\ View(r) \in Seq(Queue!Entry) /\ Len(View(r)) = Len(r)
      /\ \A i \in 1 .. Len(r) : View(r)[i] = ViewOf(r[i])
  BY <1>4, ViewIsQueue
<1>6. mapped = ViewOf(used)
  <2>1. View(q)[1] = ViewOf(q[1])
    BY <1>1, <1>5
  <2>2. mapped = [ViewOf(q[1]) EXCEPT !.left = @ - 1]
    BY <2>1
  <2>. QED
    BY <1>3, <2>2 DEF ViewOf
<1>7. View(r)[1] = mapped
  <2>1. View(r)[1] = ViewOf(r[1])
    BY <1>1, <1>4, <1>5
  <2>. QED
    BY <1>4, <1>6, <2>1
<1>8. mapped \in Queue!Entry
  BY <1>2, <1>6, ViewOfItem
<1>. HIDE DEF mapped
<1>. DEFINE e == [View(q) EXCEPT ![1] = mapped]
<1>9. /\ e \in Seq(Queue!Entry) /\ Len(e) = Len(q) /\ e[1] = mapped
      /\ \A i \in 2 .. Len(q) : e[i] = View(q)[i]
  BY <1>1, <1>5, <1>8, ExceptSeq
<1>10. [View(q) EXCEPT ![1].left = @ - 1] = e
  BY <1>1, <1>5 DEF mapped
<1>. HIDE DEF e
<1>11. ASSUME NEW i \in 1 .. Len(q) PROVE View(r)[i] = e[i]
  <2>1. CASE i = 1
    BY <1>7, <1>9, <2>1
  <2>2. CASE i \in 2 .. Len(q)
    BY <1>4, <1>5, <1>9, <2>2
  <2>. QED
    BY <1>1, <2>1, <2>2
<1>12. View(r) = e
  BY <1>4, <1>5, <1>9, <1>11, SeqEqual
<1>. QED
  BY <1>10, <1>12 DEF r

\* What a handler or the application queues is a batch of RequestQueue.
LEMMA ViewOfBatch ==
  ASSUME IInv, NEW batch \in Batches
  PROVE  batch \in Seq(OutgoingQueueItem) /\ View(batch) \in Queue!Batches
<1>1. CASE batch = <<>>
  <2>1. batch \in Seq(OutgoingQueueItem)
    BY <1>1, EmptySeq
  <2>2. View(batch) = <<>>
    BY <1>1, <2>1, ViewIsQueue
  <2>. QED
    BY <2>1, <2>2 DEF Queue!Batches
<1>2. ASSUME NEW s \in Submissions, batch = <<s>>
      PROVE  batch \in Seq(OutgoingQueueItem) /\ View(batch) \in Queue!Batches
  <2>1. s \in OutgoingQueueItem /\ s.number_of_retries = s.granted
    BY SubmissionsAreFresh
  <2>2. batch \in Seq(OutgoingQueueItem) /\ Len(batch) = 1 /\ batch[1] = s
    BY <1>2, <2>1
  <2>3. View(batch) = <<ViewOf(s)>>
    BY <2>2, ViewIsQueue
  <2>4. ViewOf(s) \in Queue!Entry /\ ViewOf(s).left > 0 /\ ViewOf(s).msg = s.msg
    BY <2>1, ItemFields, ViewOfItem
  <2>5. s.msg \notin Queued
    BY DEF Submissions, Request, Notification
  <2>6. {Pending[i].msg : i \in DOMAIN Pending} = Queued
    BY DEF Pending, Queued
  <2>7. View(batch) \in Queue!Batches
    BY <2>3, <2>4, <2>5, <2>6 DEF Queue!Batches
  <2>. QED
    BY <2>2, <2>7
<1>. QED
  BY <1>1, <1>2 DEF Batches

-----------------------------------------------------------------------------
(* The steps                                                               *)

\* What of a step's calls ends a message.
Ended(seen) == {c \in seen : c.op \in Finals}

LEMMA NothingEnded ==
  ASSUME NEW run
  PROVE  /\ Ended({}) = {} /\ Ended(SeenCalls(run)) = {}
         /\ \A m : Ended(SeenCalls(run) \cup {Call("request", m)}) = {}
  BY DEF Ended, SeenCalls, Answering, Call, Finals

LEMMA OneEnded ==
  ASSUME NEW run, NEW op \in Finals, NEW m
  PROVE  /\ Ended({Call(op, m)}) = {[op |-> op, msg |-> m]}
         /\ Ended(SeenCalls(run) \cup {Call(op, m)}) = {[op |-> op, msg |-> m]}
  BY DEF Ended, SeenCalls, Answering, Call, Finals

\* The queue of an iteration, with what its handler pushed.
LEMMA QueueAfterHandler ==
  ASSUME IInv, NEW batch \in Batches
  PROVE  LET q == outgoing_messages_ \o batch
         IN  /\ q \in Seq(OutgoingQueueItem)
             /\ View(q) = Pending \o View(batch)
             /\ View(batch) \in Queue!Batches
<1>1. outgoing_messages_ \in Seq(OutgoingQueueItem)
  BY DEF IInv, TypeOK
<1>2. batch \in Seq(OutgoingQueueItem) /\ View(batch) \in Queue!Batches
  BY ViewOfBatch
<1>3. View(outgoing_messages_ \o batch) = View(outgoing_messages_) \o View(batch)
  BY <1>1, <1>2, ViewOfConcat, Zenon
<1>4. outgoing_messages_ \o batch \in Seq(OutgoingQueueItem)
  BY <1>1, <1>2, ConcatProperties
<1>. QED
  BY <1>2, <1>3, <1>4, PendingIsView

\* A step that hands over messages at most.
LEMMA SubmitRefines ==
  ASSUME IInv, NEW batch \in Batches, Ended(calls') = {}, state_' = state_,
         outgoing_messages_' = outgoing_messages_ \o batch
  PROVE  Queue!Next
<1>1. View(outgoing_messages_ \o batch) = Pending \o View(batch)
      /\ View(batch) \in Queue!Batches
  BY QueueAfterHandler
<1>2. Pending' = Pending \o View(batch)
  BY <1>1 DEF Pending, View, ViewOf
<1>3. Queue!Submit(View(batch))
  BY <1>2 DEF Queue!Submit, Ended, Finals
<1>. QED
  BY <1>1, <1>3 DEF Queue!Next

\* A step that uses up a try of the oldest message.
LEMMA TryRefines ==
  ASSUME IInv, NEW batch \in Batches, Ended(calls') = {}, state_ = "IDLE",
         outgoing_messages_ \o batch # <<>>,
         Head(outgoing_messages_ \o batch).number_of_retries > 0,
         outgoing_messages_' = UseTry(outgoing_messages_ \o batch),
         \/ state_' = "IDLE"
         \/ state_' = "WAITING_FOR_ANSWER"
              /\ ~Head(outgoing_messages_ \o batch).no_answer
  PROVE  Queue!Next
<1>. DEFINE q == outgoing_messages_ \o batch
            b == View(batch)
<1>1. q \in Seq(OutgoingQueueItem) /\ View(q) = Pending \o b /\ b \in Queue!Batches
  BY QueueAfterHandler
<1>2. q # <<>> /\ Head(q).number_of_retries > 0 /\ outgoing_messages_' = UseTry(q)
  OBVIOUS
<1>3. \/ state_' = "IDLE"
      \/ state_' = "WAITING_FOR_ANSWER" /\ ~Head(q).no_answer
  OBVIOUS
<1>. HIDE DEF q, b
<1>4. /\ View(q) # <<>> /\ Head(View(q)).left > 0
      /\ Head(View(q)).wants_answer = ~Head(q).no_answer
  <2>1. View(q) # <<>> /\ Head(View(q)) = ViewOf(Head(q)) /\ Head(q) \in OutgoingQueueItem
    BY <1>1, <1>2, ViewIsQueue
  <2>. QED
    BY <1>2, <2>1, ViewOfItem
<1>5. Pending' = [Pending \o b EXCEPT ![1].left = @ - 1]
  <2>1. View(UseTry(q)) = [View(q) EXCEPT ![1].left = @ - 1]
    BY <1>1, <1>2, ViewOfTry
  <2>2. Pending' = View(outgoing_messages_')
    BY DEF Pending, View, ViewOf
  <2>. QED
    BY <1>1, <1>2, <2>1, <2>2
<1>6. CASE state_' = "IDLE"
  <2>1. Queue!UseTry(Pending \o b, FALSE)
    BY <1>5, <1>6 DEF Queue!UseTry, Ended, Finals
  <2>. QED
    BY <1>1, <1>4, <2>1 DEF Queue!Next, Queue!Try
<1>7. CASE state_' = "WAITING_FOR_ANSWER" /\ ~Head(q).no_answer
  <2>1. Queue!UseTry(Pending \o b, TRUE)
    BY <1>5, <1>7 DEF Queue!UseTry, Ended, Finals
  <2>2. Head(Pending \o b).wants_answer
    BY <1>1, <1>4, <1>7
  <2>. QED
    BY <1>1, <1>4, <2>1, <2>2 DEF Queue!Next, Queue!Try
<1>. QED
  BY <1>3, <1>6, <1>7

\* A step after which the oldest message is gone, in the way op tells.
LEMMA EndIs ==
  ASSUME IInv, NEW batch \in Batches, NEW op \in Finals,
         outgoing_messages_ \o batch # <<>>,
         outgoing_messages_' = Tail(outgoing_messages_ \o batch),
         state_' = "IDLE",
         Ended(calls') = {[op |-> op, msg |-> Head(outgoing_messages_ \o batch).msg]}
  PROVE  LET q == outgoing_messages_ \o batch
         IN  /\ Queue!End(Pending \o View(batch), op)
             /\ Pending \o View(batch) # <<>>
             /\ Head(Pending \o View(batch)).left = Head(q).number_of_retries
             /\ Head(Pending \o View(batch)).wants_answer = ~Head(q).no_answer
<1>. DEFINE q == outgoing_messages_ \o batch
            v == Pending \o View(batch)
<1>1. q \in Seq(OutgoingQueueItem) /\ View(q) = v
  BY QueueAfterHandler
<1>2. q # <<>> /\ outgoing_messages_' = Tail(q)
      /\ Ended(calls') = {[op |-> op, msg |-> Head(q).msg]}
  OBVIOUS
<1>. HIDE DEF q, v
<1>3. View(q) # <<>> /\ Head(View(q)) = ViewOf(Head(q)) /\ Head(q) \in OutgoingQueueItem
  BY <1>1, <1>2, ViewIsQueue
<1>4. /\ Head(v).left = Head(q).number_of_retries
      /\ Head(v).wants_answer = ~Head(q).no_answer
      /\ Head(v).msg = Head(q).msg
  BY <1>1, <1>3, ViewOfItem
<1>5. Pending' = Tail(v)
  <2>1. Pending' = View(outgoing_messages_')
    BY DEF Pending, View, ViewOf
  <2>. QED
    BY <1>1, <1>2, <2>1, ViewOfTail
<1>6. Queue!End(v, op)
  BY <1>2, <1>4, <1>5 DEF Queue!End, Ended, Finals
<1>. QED
  BY <1>1, <1>3, <1>4, <1>6 DEF q, v

\* An iteration in IDLE hands over a batch, and tries or drops the oldest message.
LEMMA IdleRefines ==
  ASSUME IInv, NEW arrived \in Arrivals, LoopIdle(arrived)
  PROVE  Queue!Next
<1>1. PICK run \in MessageHandlerRuns(incoming_queue_ \o arrived) :
        LET q == outgoing_messages_ \o run.pushed
            cooldown == CooldownAfter(run)
        IN  \/ Rest(q, cooldown, run)
            \/ \E e \in 0..WriteTime : Transmit(q, cooldown, run, e)
            \/ \E e \in 0..WriteTime : Refuse(q, cooldown, run, e)
            \/ Discard(q, cooldown, run)
  BY DEF LoopIdle, IdleIteration
<1>. DEFINE q == outgoing_messages_ \o run.pushed
            cooldown == CooldownAfter(run)
            b == View(run.pushed)
<1>2. state_ = "IDLE"
  BY DEF LoopIdle, IdleIteration
<1>3. run.pushed \in Batches
  <2>1. BOOLEAN \in SUBSET BOOLEAN
    OBVIOUS
  <2>. QED
    BY <2>1, RunFields DEF MessageHandlerRuns
<1>4. b \in Queue!Batches
  BY <1>3, QueueAfterHandler
<1>5. CASE Rest(q, cooldown, run)
  <2>1. outgoing_messages_' = q /\ state_' = state_ /\ Ended(calls') = {}
    BY <1>5, NothingEnded DEF Rest
  <2>. QED
    BY <1>3, <2>1, SubmitRefines
<1>6. ASSUME NEW e \in 0..WriteTime, Transmit(q, cooldown, run, e) PROVE Queue!Next
  <2>1. q # <<>> /\ Head(q).number_of_retries > 0
    BY <1>6 DEF Transmit, Ready
  <2>2. CASE ~Head(q).no_answer
    <3>1. /\ outgoing_messages_' = UseTry(q) /\ state_' = "WAITING_FOR_ANSWER"
          /\ Ended(calls') = {}
      BY <1>6, <2>2, NothingEnded DEF Transmit
    <3>. QED
      BY <1>2, <1>3, <2>1, <2>2, <3>1, TryRefines
  <2>3. CASE Head(q).no_answer
    <3>1. /\ outgoing_messages_' = Tail(q) /\ state_' = "IDLE"
          /\ calls' = SeenCalls(run) \cup {Call("notify", Head(q).msg)}
      BY <1>2, <1>6, <2>3 DEF Transmit
    <3>2. Ended(calls') = {[op |-> "notify", msg |-> Head(q).msg]} /\ "notify" \in Finals
      BY <3>1, OneEnded DEF Finals
    <3>3. /\ Queue!End(Pending \o b, "notify") /\ Pending \o b # <<>>
          /\ Head(Pending \o b).left = Head(q).number_of_retries
          /\ Head(Pending \o b).wants_answer = ~Head(q).no_answer
      BY <1>3, <2>1, <3>1, <3>2, EndIs
    <3>. QED
      BY <1>2, <1>4, <2>1, <2>3, <3>3 DEF Queue!Next, Queue!Try
  <2>. QED
    BY <2>2, <2>3
<1>7. ASSUME NEW e \in 0..WriteTime, Refuse(q, cooldown, run, e) PROVE Queue!Next
  <2>1. /\ q # <<>> /\ Head(q).number_of_retries > 0
        /\ outgoing_messages_' = UseTry(q) /\ state_' = "IDLE" /\ Ended(calls') = {}
    BY <1>2, <1>7, NothingEnded DEF Refuse, Ready
  <2>. QED
    BY <1>2, <1>3, <2>1, TryRefines
<1>8. CASE Discard(q, cooldown, run)
  <2>1. /\ q # <<>> /\ Head(q).number_of_retries = 0
        /\ outgoing_messages_' = Tail(q) /\ state_' = "IDLE"
        /\ calls' = SeenCalls(run) \cup {Call("drop", Head(q).msg)}
    BY <1>2, <1>8 DEF Discard, Ready
  <2>2. Ended(calls') = {[op |-> "drop", msg |-> Head(q).msg]} /\ "drop" \in Finals
    BY <2>1, OneEnded DEF Finals
  <2>3. /\ Queue!End(Pending \o b, "drop") /\ Pending \o b # <<>>
        /\ Head(Pending \o b).left = 0
    BY <1>3, <2>1, <2>2, EndIs
  <2>. QED
    BY <1>2, <1>4, <2>3 DEF Queue!Next, Queue!Drop
<1>. QED
  BY <1>1, <1>5, <1>6, <1>7, <1>8

\* What a handler queues comes behind the message that leaves.
LEMMA TailOfConcat ==
  ASSUME NEW q \in Seq(OutgoingQueueItem), q # <<>>, NEW batch \in Batches
  PROVE  /\ Tail(q \o batch) = Tail(q) \o batch
         /\ q \o batch # <<>> /\ Head(q \o batch) = Head(q)
<1>1. Tail(q) \in Seq(OutgoingQueueItem)
  BY HeadTailProperties
<1>2. CASE batch = <<>>
  BY <1>1, <1>2, ConcatEmptySeq
<1>3. ASSUME NEW s \in Submissions, batch = <<s>>
      PROVE  /\ Tail(q \o batch) = Tail(q) \o batch
             /\ q \o batch # <<>> /\ Head(q \o batch) = Head(q)
  <2>1. s \in OutgoingQueueItem
    BY SubmissionsAreFresh
  <2>2. q \o batch = Append(q, s) /\ Tail(q) \o batch = Append(Tail(q), s)
    BY <1>1, <1>3, <2>1, AppendIsConcat
  <2>3. /\ Head(Append(q, s)) = Head(q) /\ Tail(Append(q, s)) = Append(Tail(q), s)
        /\ Append(q, s) # <<>>
    BY <2>1, HeadTailAppend, AppendProperties
  <2>. QED
    BY <2>2, <2>3
<1>. QED
  BY <1>2, <1>3 DEF Batches

\* An answer, or the end of the last try, removes the awaited request.
LEMMA FinishRefines ==
  ASSUME IInv, state_ = "WAITING_FOR_ANSWER", NEW run \in HandlerRuns({FALSE}),
         NEW op \in {"answered", "expire"}, Finish(run, op),
         op = "expire" => Head(outgoing_messages_).number_of_retries = 0
  PROVE  Queue!Next
<1>. DEFINE q == outgoing_messages_ \o run.pushed
            b == View(run.pushed)
<1>1. run.pushed \in Batches
  BY DEF HandlerRuns
<1>2. /\ outgoing_messages_ \in Seq(OutgoingQueueItem) /\ outgoing_messages_ # <<>>
      /\ Head(outgoing_messages_).msg = last_message_type_
  BY DEF IInv, TypeOK, AwaitsTheOldest
<1>3. run.pushed \in Seq(OutgoingQueueItem) /\ b \in Queue!Batches
  BY <1>1, ViewOfBatch
<1>4. /\ Tail(q) = Tail(outgoing_messages_) \o run.pushed
      /\ q # <<>> /\ Head(q) = Head(outgoing_messages_)
  BY <1>1, <1>2, TailOfConcat
<1>5. /\ outgoing_messages_' = Tail(q) /\ state_' = "IDLE"
      /\ calls' = {Call(op, Head(q).msg)}
  BY <1>2, <1>4 DEF Finish
<1>6. op \in Finals /\ Ended(calls') = {[op |-> op, msg |-> Head(q).msg]}
  BY <1>5, OneEnded DEF Finals
<1>7. Queue!End(Pending \o b, op)
  BY <1>1, <1>4, <1>5, <1>6, EndIs
<1>8. CASE op = "answered"
  BY <1>3, <1>7, <1>8 DEF Queue!Next, Queue!Answer
<1>9. CASE op = "expire"
  <2>1. Head(Pending) = ViewOf(Head(outgoing_messages_))
        /\ Head(outgoing_messages_) \in OutgoingQueueItem
    BY <1>2, PendingIsView, ViewIsQueue
  <2>2. Head(Pending).left = 0
    BY <1>9, <2>1, ViewOfItem
  <2>. QED
    BY <1>3, <1>7, <1>9, <2>2 DEF Queue!Next, Queue!GiveUp
<1>. QED
  BY <1>8, <1>9

\* An answer time that is over takes the request off the line, with tries left.
LEMMA RetryRefines ==
  ASSUME IInv, NEW arrived \in Arrivals, LoopRetry(arrived)
  PROVE  Queue!Next
<1>1. /\ outgoing_messages_ \in Seq(OutgoingQueueItem) /\ outgoing_messages_ # <<>>
      /\ state_ = "WAITING_FOR_ANSWER" /\ state_' = "IDLE" /\ calls' = {}
      /\ outgoing_messages_' = outgoing_messages_
      /\ Head(outgoing_messages_).number_of_retries # 0
  BY DEF IInv, TypeOK, AwaitsTheOldest, LoopRetry
<1>2. Head(Pending) = ViewOf(Head(outgoing_messages_))
      /\ Head(outgoing_messages_) \in OutgoingQueueItem
  BY <1>1, PendingIsView, ViewIsQueue
<1>3. Head(Pending).left > 0
  BY <1>1, <1>2, ViewOfItem, ItemFields
<1>4. Pending' = Pending
  BY <1>1 DEF Pending
<1>5. Queue!GiveUp(<<>>)
  BY <1>1, <1>3, <1>4 DEF Queue!GiveUp
<1>. QED
  BY <1>5 DEF Queue!Next, Queue!Batches

\* A step that leaves the queue alone and tells nothing.
LEMMA SilentRefines ==
  ASSUME IInv, outgoing_messages_' = outgoing_messages_, state_' = state_, calls' = {}
  PROVE  Queue!Next
<1>1. <<>> \in Batches
  BY DEF Batches
<1>2. outgoing_messages_' = outgoing_messages_ \o <<>>
  BY ConcatEmptySeq DEF IInv, TypeOK
<1>. QED
  BY <1>1, <1>2, NothingEnded, SubmitRefines

LEMMA EnqueueRefines ==
  ASSUME IInv, NEW item \in Submissions, Enqueue(item)
  PROVE  Queue!Next
<1>1. <<item>> \in Batches
  BY DEF Batches
<1>2. outgoing_messages_' = outgoing_messages_ \o <<item>>
  <2>. item \in OutgoingQueueItem /\ outgoing_messages_ \in Seq(OutgoingQueueItem)
    BY SubmissionsAreFresh DEF IInv, TypeOK
  <2>. QED
    BY AppendIsConcat DEF Enqueue
<1>3. state_' = state_ /\ calls' = {}
  BY DEF Enqueue
<1>. QED
  BY <1>1, <1>2, <1>3, NothingEnded, SubmitRefines

LEMMA StepRefines ==
  ASSUME IInv, [Next]_vars
  PROVE  [Queue!Next]_<<Pending, state_ = "WAITING_FOR_ANSWER",
            {c \in calls : c.op \in {"answered", "expire", "notify", "drop"}}>>
<1>1. ASSUME NEW arrived \in Arrivals, LoopIdle(arrived) PROVE Queue!Next
  BY <1>1, IdleRefines
<1>2. ASSUME NEW arrived \in Arrivals, LoopExpire(arrived) PROVE Queue!Next
  BY <1>2, FinishRefines DEF LoopExpire, ExpireIteration
<1>3. ASSUME NEW arrived \in Arrivals, LoopRetry(arrived) PROVE Queue!Next
  BY <1>3, RetryRefines
<1>4. ASSUME NEW arrived \in Arrivals, LoopAnswer(arrived) PROVE Queue!Next
  BY <1>4, FinishRefines DEF LoopAnswer, AnswerIteration
<1>5. CASE LoopWait
  BY <1>5, SilentRefines DEF LoopWait
<1>6. ASSUME NEW m \in Message, NEW n \in Repeats, NEW i \in RetryIntervals,
             send_message(m, n, i)
      PROVE  Queue!Next
  <2>1. Request(m, n, i) \in Submissions
    BY <1>6 DEF send_message, Submissions
  <2>. QED
    BY <1>6, <2>1, EnqueueRefines DEF send_message
<1>7. ASSUME NEW m \in Message, send_message_without_answer(m) PROVE Queue!Next
  <2>1. Notification(m) \in Submissions
    BY <1>7 DEF send_message_without_answer, Submissions
  <2>. QED
    BY <1>7, <2>1, EnqueueRefines DEF send_message_without_answer
<1>8. ASSUME NEW i \in AnswerTimeouts, set_answer_timeout(i) PROVE Queue!Next
  BY <1>8, SilentRefines DEF set_answer_timeout
<1>9. ASSUME NEW i \in CooldownIntervals, set_cooldown_interval(i) PROVE Queue!Next
  BY <1>9, SilentRefines DEF set_cooldown_interval
<1>10. CASE Tick
  BY <1>10, SilentRefines DEF Tick
<1>11. CASE UNCHANGED vars
  <2>1. outgoing_messages_' = outgoing_messages_ /\ state_' = state_ /\ calls' = calls
    BY <1>11 DEF vars
  <2>. QED
    BY <2>1 DEF Pending
<1>. QED
  BY <1>1, <1>2, <1>3, <1>4, <1>5, <1>6, <1>7, <1>8, <1>9, <1>10, <1>11
  DEF Next, loop

\* What an application sees of the messages it hands over is RequestQueue: each
\* message leaves once, in order, within its tries, and an answer or an expiry is
\* told of the message that was on the line.
THEOREM HandlerImplementsQueue == Spec => ImplementsQueue
<1>1. Init => Queue!Init
  <2>1. Init => Pending = <<>>
    <3>. SUFFICES ASSUME Init PROVE Pending = <<>>
      OBVIOUS
    <3>1. outgoing_messages_ = <<>> /\ outgoing_messages_ \in Seq(OutgoingQueueItem)
      BY EmptySeq DEF Init
    <3>. QED
      BY <3>1, PendingIsView, ViewIsQueue
  <2>. QED
    BY <2>1 DEF Init, Queue!Init
<1>2. IInv /\ [Next]_vars
        => [Queue!Next]_<<Pending, state_ = "WAITING_FOR_ANSWER",
              {c \in calls : c.op \in {"answered", "expire", "notify", "drop"}}>>
  BY StepRefines
<1>. QED
  BY <1>1, <1>2, Invariant, PTL DEF Spec, ImplementsQueue, Queue!Spec, Queue!vars

-----------------------------------------------------------------------------
(* The oldest message gets through                                         *)

Awaiting == state_ = "WAITING_FOR_ANSWER"
Later(a, b) == IF a < b THEN b ELSE a

\* The stages still before the oldest message, one for each writing and one for
\* each waiting, and the time still to pass before the next one.
StagesLeft ==
  2 * Head(outgoing_messages_).number_of_retries + (IF Awaiting THEN 1 ELSE 0)
TimeLeft ==
  IF Awaiting THEN answer_left + 1 ELSE Later(0, Later(cooldown_left, retry_left))

\* Nothing of what a step does puts off the oldest message or removes it.
FrontStays ==
  outgoing_messages_ # <<>> /\ Ended(calls') = {} /\ Answering \notin calls'

\* The oldest message is nearer its end, or no further from it.
Nearer == StagesLeft' < StagesLeft
NoFurther == StagesLeft' = StagesLeft /\ TimeLeft' <= TimeLeft

\* A step that does neither brings it no further from its end: time shortens
\* what is left of the time, and when none is left an iteration takes a stage.
FrontAdvances ==
  FrontStays =>
    /\ Nearer \/ NoFurther
    /\ Tick /\ TimeLeft > 0 => StagesLeft' = StagesLeft /\ TimeLeft' < TimeLeft
    /\ loop /\ TimeLeft = 0 => Nearer

\* A step that tells of the end of a message ends one.
LEMMA TellsEnd ==
  ASSUME NEW op \in Finals, NEW m, NEW seen, Call(op, m) \in seen
  PROVE  Ended(seen) # {}
<1>1. Call(op, m).op \in Finals
  BY DEF Call
<1>. QED
  BY <1>1 DEF Ended

\* Stages and time are counted in natural numbers.
LEMMA MeasuresCount ==
  ASSUME IInv, outgoing_messages_ # <<>>
  PROVE  /\ Head(outgoing_messages_) \in OutgoingQueueItem
         /\ Head(outgoing_messages_).number_of_retries \in Nat
         /\ StagesLeft \in Nat /\ TimeLeft \in Nat
<1>1. Head(outgoing_messages_) \in OutgoingQueueItem
  BY HeadTailProperties DEF IInv, TypeOK
<1>2. Head(outgoing_messages_).number_of_retries \in Nat
  BY <1>1, ItemFields
<1>3. StagesLeft \in Nat
  BY <1>2 DEF StagesLeft
<1>4. TimeLeft \in Nat
  BY DEF TimeLeft, Later, IInv, TypeOK
<1>. QED
  BY <1>1, <1>2, <1>3, <1>4

\* A step that keeps the state and the oldest message, and no deadline of which
\* is put off, brings the message no further from its end.
LEMMA SameStage ==
  ASSUME IInv, outgoing_messages_ # <<>>, state_' = state_,
         Head(outgoing_messages_') = Head(outgoing_messages_), NEW t \in Nat,
         cooldown_left' = Left(cooldown_left, t),
         answer_left' = Left(answer_left, t),
         retry_left' = Left(retry_left, t)
  PROVE  NoFurther /\ (t > 0 /\ TimeLeft > 0 => TimeLeft' < TimeLeft)
<1>1. StagesLeft' = StagesLeft
  BY DEF StagesLeft, Awaiting
<1>2. /\ cooldown_left \in Int /\ cooldown_left >= -1
      /\ answer_left \in Int /\ answer_left >= -1
      /\ retry_left \in Int /\ retry_left >= -1
  BY DEF IInv, TypeOK
<1>3. CASE Awaiting
  BY <1>1, <1>2, <1>3 DEF NoFurther, TimeLeft, Awaiting, Left
<1>4. CASE ~Awaiting
  BY <1>1, <1>2, <1>4 DEF NoFurther, TimeLeft, Awaiting, Later, Left
<1>. QED
  BY <1>3, <1>4

\* A step that changes neither the deadlines nor the oldest message.
LEMMA NothingPassed ==
  ASSUME IInv, outgoing_messages_ # <<>>, state_' = state_, UNCHANGED timers,
         Head(outgoing_messages_') = Head(outgoing_messages_)
  PROVE  NoFurther
<1>1. /\ cooldown_left' = cooldown_left /\ answer_left' = answer_left
      /\ retry_left' = retry_left
  BY DEF timers
<1>2. StagesLeft' = StagesLeft /\ TimeLeft' = TimeLeft
  BY <1>1 DEF StagesLeft, TimeLeft, Awaiting
<1>. QED
  BY <1>2, MeasuresCount DEF NoFurther

\* A try of the oldest message is a stage: it is written and awaited, or refused.
LEMMA TryIsAStage ==
  ASSUME IInv, outgoing_messages_ # <<>>, state_ = "IDLE",
         NEW q \in Seq(OutgoingQueueItem), q # <<>>,
         Head(q) = Head(outgoing_messages_), Head(q).number_of_retries > 0,
         outgoing_messages_' = UseTry(q)
  PROVE  Nearer
<1>1. /\ Len(q) \in Nat /\ Len(q) >= 1
      /\ q[1] = Head(q) /\ Head(q) \in OutgoingQueueItem
      /\ Head(q).number_of_retries \in Nat
  BY EmptySeq, MeasuresCount
<1>. DEFINE used == [q[1] EXCEPT !.number_of_retries = @ - 1]
<1>2. used \in OutgoingQueueItem
      /\ used.number_of_retries = Head(q).number_of_retries - 1
  BY <1>1, OneTryLess
<1>. HIDE DEF used
<1>3. UseTry(q) = [q EXCEPT ![1] = used]
  BY <1>1 DEF UseTry, used
<1>4. /\ UseTry(q) \in Seq(OutgoingQueueItem) /\ Len(UseTry(q)) = Len(q)
      /\ UseTry(q)[1] = used
  BY <1>1, <1>2, <1>3, ExceptSeq
<1>5. Head(UseTry(q)) = used
  BY <1>1, <1>4, EmptySeq
<1>. QED
  BY <1>1, <1>2, <1>5 DEF Nearer, StagesLeft, Awaiting

LEMMA IdleAdvances ==
  ASSUME IInv, FrontStays, NEW arrived \in Arrivals, LoopIdle(arrived)
  PROVE  Nearer \/ (NoFurther /\ TimeLeft # 0)
<1>1. PICK run \in MessageHandlerRuns(incoming_queue_ \o arrived) :
        LET q == outgoing_messages_ \o run.pushed
            cooldown == CooldownAfter(run)
        IN  \/ Rest(q, cooldown, run)
            \/ \E e \in 0..WriteTime : Transmit(q, cooldown, run, e)
            \/ \E e \in 0..WriteTime : Refuse(q, cooldown, run, e)
            \/ Discard(q, cooldown, run)
  BY DEF LoopIdle, IdleIteration
<1>. DEFINE q == outgoing_messages_ \o run.pushed
            cooldown == CooldownAfter(run)
<1>2. IdleContext(q, cooldown, run)
  BY IdleContextHolds
<1>3. /\ outgoing_messages_ # <<>> /\ q \in Seq(OutgoingQueueItem) /\ q # <<>>
      /\ Head(q) = Head(outgoing_messages_) /\ state_ = "IDLE"
      /\ run.took \in Nat
  BY <1>2 DEF IdleContext, Accounts, FrontStays
<1>4. ASSUME SeenCalls(run) \subseteq calls'
      PROVE  cooldown = cooldown_left
  BY <1>4 DEF FrontStays, SeenCalls, CooldownAfter
<1>. HIDE DEF q, cooldown
<1>5. CASE Rest(q, cooldown, run)
  <2>1. /\ ~Ready(q, cooldown) /\ cooldown = cooldown_left
        /\ outgoing_messages_' = q /\ state_' = state_
        /\ cooldown_left' = Left(cooldown_left, run.took)
        /\ answer_left' = Left(answer_left, run.took)
        /\ retry_left' = Left(retry_left, run.took)
    BY <1>4, <1>5 DEF Rest
  <2>2. NoFurther
    BY <1>3, <2>1, SameStage
  <2>3. TimeLeft # 0
    <3>1. cooldown_left > 0 \/ retry_left > 0
      BY <1>3, <2>1 DEF Ready, IInv, TypeOK
    <3>. QED
      BY <1>3, <3>1 DEF TimeLeft, Awaiting, Later, IInv, TypeOK
  <2>. QED
    BY <2>2, <2>3
<1>6. ASSUME NEW e \in 0..WriteTime, Transmit(q, cooldown, run, e) PROVE Nearer
  <2>1. CASE Head(q).no_answer
    <3>1. calls' = SeenCalls(run) \cup {Call("notify", Head(q).msg)}
      BY <1>6, <2>1 DEF Transmit
    <3>2. Ended(calls') # {}
      BY <3>1, TellsEnd DEF Finals
    <3>. QED
      BY <3>2 DEF FrontStays
  <2>2. CASE ~Head(q).no_answer
    <3>1. Head(q).number_of_retries > 0 /\ outgoing_messages_' = UseTry(q)
      BY <1>6, <2>2 DEF Transmit
    <3>. QED
      BY <1>3, <3>1, TryIsAStage
  <2>. QED
    BY <2>1, <2>2
<1>7. ASSUME NEW e \in 0..WriteTime, Refuse(q, cooldown, run, e) PROVE Nearer
  <2>1. Head(q).number_of_retries > 0 /\ outgoing_messages_' = UseTry(q)
    BY <1>7 DEF Refuse
  <2>. QED
    BY <1>3, <2>1, TryIsAStage
<1>8. CASE Discard(q, cooldown, run)
  <2>1. calls' = SeenCalls(run) \cup {Call("drop", Head(q).msg)}
    BY <1>8 DEF Discard
  <2>2. Ended(calls') # {}
    BY <2>1, TellsEnd DEF Finals
  <2>. QED
    BY <2>2 DEF FrontStays
<1>. QED
  BY <1>1, <1>5, <1>6, <1>7, <1>8 DEF q, cooldown

LEMMA LoopAdvances ==
  ASSUME IInv, FrontStays, loop
  PROVE  Nearer \/ (NoFurther /\ TimeLeft # 0)
<1>1. outgoing_messages_ # <<>>
  BY DEF FrontStays
<1>2. ASSUME NEW arrived \in Arrivals, LoopExpire(arrived) \/ LoopAnswer(arrived)
      PROVE  FALSE
  <2>1. \/ calls' = {Call("expire", last_message_type_)}
        \/ calls' = {Call("answered", last_message_type_)}
    BY <1>2, AnsweredOrExpired
  <2>2. Ended(calls') # {}
    BY <2>1, TellsEnd DEF Finals
  <2>. QED
    BY <2>2 DEF FrontStays
<1>3. ASSUME NEW arrived \in Arrivals, LoopRetry(arrived) PROVE Nearer
  <2>1. /\ state_ = "WAITING_FOR_ANSWER" /\ state_' = "IDLE"
        /\ outgoing_messages_' = outgoing_messages_
    BY <1>3 DEF LoopRetry
  <2>. QED
    BY <1>1, <2>1, MeasuresCount DEF Nearer, StagesLeft, Awaiting
<1>4. CASE LoopWait
  <2>1. /\ Awaiting /\ answer_left >= 0 /\ state_' = state_ /\ UNCHANGED timers
        /\ Head(outgoing_messages_') = Head(outgoing_messages_)
    BY <1>4 DEF LoopWait, Awaiting
  <2>2. TimeLeft # 0
    BY <2>1 DEF TimeLeft, IInv, TypeOK
  <2>. QED
    BY <1>1, <2>1, <2>2, NothingPassed
<1>. QED
  BY <1>2, <1>3, <1>4, IdleAdvances DEF loop

LEMMA TickAdvances ==
  ASSUME IInv, FrontStays, Tick
  PROVE  NoFurther /\ (TimeLeft > 0 => TimeLeft' < TimeLeft)
<1>1. /\ outgoing_messages_ # <<>> /\ state_' = state_
      /\ Head(outgoing_messages_') = Head(outgoing_messages_)
      /\ cooldown_left' = Left(cooldown_left, 1)
      /\ answer_left' = Left(answer_left, 1)
      /\ retry_left' = Left(retry_left, 1)
  BY DEF Tick, FrontStays
<1>. QED
  BY <1>1, SameStage

\* A message put behind the oldest.
LEMMA EnqueueAdvances ==
  ASSUME IInv, FrontStays, NEW item \in Submissions, Enqueue(item)
  PROVE  NoFurther
<1>1. /\ outgoing_messages_ # <<>> /\ outgoing_messages_ \in Seq(OutgoingQueueItem)
      /\ item \in OutgoingQueueItem
  BY SubmissionsAreFresh DEF FrontStays, IInv, TypeOK
<1>2. Head(Append(outgoing_messages_, item)) = Head(outgoing_messages_)
  BY <1>1, HeadTailAppend
<1>. QED
  BY <1>1, <1>2, NothingPassed DEF Enqueue

\* The safety core of QueueDrains: as long as the oldest message neither leaves
\* the queue nor sees the cooldown restarted by an answer of a handler, no step
\* takes it further from its end, counted in stages (each a writing or the
\* waiting after it) and then in time; the clock shortens the time before the
\* next stage, and once that is over every call of loop() completes a stage.
\* There are 2 * number_of_retries + 1 stages at most, so the message leaves.
THEOREM OldestAdvances == Spec => [][FrontAdvances]_vars
<1>1. IInv /\ [Next]_vars => [FrontAdvances]_vars
  <2>. SUFFICES ASSUME IInv, [Next]_vars, ~UNCHANGED vars, FrontStays
                PROVE  /\ Nearer \/ NoFurther
                       /\ Tick /\ TimeLeft > 0 =>
                            StagesLeft' = StagesLeft /\ TimeLeft' < TimeLeft
                       /\ loop /\ TimeLeft = 0 => Nearer
    BY DEF FrontAdvances
  <2>1. ASSUME NEW m \in Message, NEW n \in Repeats, NEW i \in RetryIntervals,
               send_message(m, n, i)
        PROVE  NoFurther
    <3>1. Request(m, n, i) \in Submissions
      BY <2>1 DEF send_message, Submissions
    <3>. QED
      BY <2>1, <3>1, EnqueueAdvances DEF send_message
  <2>2. ASSUME NEW m \in Message, send_message_without_answer(m) PROVE NoFurther
    <3>1. Notification(m) \in Submissions
      BY <2>2 DEF send_message_without_answer, Submissions
    <3>. QED
      BY <2>2, <3>1, EnqueueAdvances DEF send_message_without_answer
  <2>3. ASSUME NEW i, set_answer_timeout(i) \/ set_cooldown_interval(i)
        PROVE  NoFurther
    BY <2>3, NothingPassed DEF set_answer_timeout, set_cooldown_interval, FrontStays
  <2>4. Nearer \/ NoFurther
    BY <2>1, <2>2, <2>3, LoopAdvances, TickAdvances DEF Next
  <2>5. Tick /\ TimeLeft > 0 => StagesLeft' = StagesLeft /\ TimeLeft' < TimeLeft
    BY TickAdvances DEF NoFurther
  <2>6. loop /\ TimeLeft = 0 => Nearer
    BY LoopAdvances
  <2>. QED
    BY <2>4, <2>5, <2>6
<1>. QED
  BY <1>1, Invariant, PTL DEF Spec
=============================================================================
