-------------------------- MODULE ProtocolLinkProofs --------------------------
(***************************************************************************)
(* Answers and their requests on the line between two handlers, when only  *)
(* one of them asks: for any messages, tries, timeouts, cooldowns and      *)
(* delays, and with any frames lost.                                       *)
(*                                                                         *)
(* What is known of the side that asks (Asks) is stated of a view, a       *)
(* record, so that it is proved once and serves for either side: which     *)
(* requests and answers are still under way, and how old they may be, is   *)
(* told by what is left of the cooldown or of the answer time.             *)
(***************************************************************************)
EXTENDS ProtocolLink, SequenceTheorems, FiniteSetTheorems, TLAPS

-----------------------------------------------------------------------------
(* The side that asks                                                      *)

InFlight == [frame : Frame, age : 0 .. Delay]

\* The view of a side: `out` is its line to the other side, `back` that to it.
MView ==
  [state |-> m_state, queue |-> m_queue, incoming |-> m_incoming, last |-> m_last,
   timeout |-> m_timeout, cooldown |-> m_cooldown, cool |-> m_cooldown_left,
   ans |-> m_answer_left, tried |-> m_tried, calls |-> m_calls,
   out |-> to_device, back |-> to_module, heard |-> heard["module"]]
DView ==
  [state |-> d_state, queue |-> d_queue, incoming |-> d_incoming, last |-> d_last,
   timeout |-> d_timeout, cooldown |-> d_cooldown, cool |-> d_cooldown_left,
   ans |-> d_answer_left, tried |-> d_tried, calls |-> d_calls,
   out |-> to_module, back |-> to_device, heard |-> heard["device"]]

Shaped(v) ==
  /\ v.state \in {"IDLE", "WAITING_FOR_ANSWER"}
  /\ v.timeout \in Nat /\ v.cooldown \in Nat
  /\ v.cool \in Int /\ v.cool >= -1 /\ v.ans \in Int /\ v.ans >= -1
  /\ v.incoming \in Seq(Frame) /\ v.out \in Seq(InFlight) /\ v.back \in Seq(InFlight)

\* Only answers come to the side that asks, and while it waits none is kept.
OnlyAnswers(v) ==
  /\ \A i \in DOMAIN v.out : v.out[i].frame.kind # "answer"
  /\ \A i \in DOMAIN v.back : v.back[i].frame.kind = "answer"
  /\ \A i \in DOMAIN v.incoming : v.incoming[i].kind = "answer"
  /\ v.state = "WAITING_FOR_ANSWER" => v.incoming = <<>>

\* With a long cooldown, what is under way is of the message written last: it left
\* when the cooldown began.
CoolTrip(v) ==
  2 * Delay < v.cooldown =>
    /\ \A i \in DOMAIN v.out :
         v.out[i].frame.of = v.last /\ v.cool + v.out[i].age >= v.cooldown
    /\ \A i \in DOMAIN v.back :
         v.back[i].frame.of = v.last /\ v.cool + v.back[i].age + Delay >= v.cooldown

\* With a long answer time, at most one request or answer is under way, that of the
\* request awaited: it left when the answer time began.
PromptTrip(v) ==
  2 * Delay <= v.timeout =>
    /\ \A i \in DOMAIN v.out :
         v.out[i].frame.kind = "request" =>
           /\ v.state = "WAITING_FOR_ANSWER" /\ i = Len(v.out) /\ v.back = <<>>
           /\ v.out[i].frame.of = v.last /\ v.ans + v.out[i].age >= v.timeout
    /\ \A i \in DOMAIN v.back :
         /\ v.state = "WAITING_FOR_ANSWER" /\ Len(v.back) = 1
         /\ v.back[i].frame.of = v.last /\ v.ans + v.back[i].age + Delay >= v.timeout
    /\ v.incoming = <<>>

HeardRight(v) ==
  (2 * Delay <= v.timeout \/ 2 * Delay < v.cooldown) /\ v.heard # <<>> =>
    v.heard[2] = [kind |-> "answer", of |-> v.heard[1]]

Asks(v) == Shaped(v) /\ OnlyAnswers(v) /\ CoolTrip(v) /\ PromptTrip(v) /\ HeardRight(v)

\* The queue of a side that asks and notifies: tries made and left add up.
Item(requests, notices) ==
  [msg : requests \cup notices, no_answer : BOOLEAN, number_of_retries : Nat,
   retry_interval : Nat, granted : Nat]
Accounted(v, requests, notices) ==
  /\ v.queue \in Seq(Item(requests, notices)) /\ v.tried \in Nat
  /\ \A i \in DOMAIN v.queue :
       v.queue[i].msg \in (IF v.queue[i].no_answer THEN notices ELSE requests)
  /\ \A i \in DOMAIN v.queue \ {1} : v.queue[i].number_of_retries = v.queue[i].granted
  /\ IF v.queue = <<>>
       THEN v.tried = 0
       ELSE v.queue[1].number_of_retries + v.tried = v.queue[1].granted
  /\ v.state = "WAITING_FOR_ANSWER" => v.queue # <<>>

\* With a long answer time, each try but one that is still under way was lost.
UnderWay(v) ==
  v.back # <<>> \/ \E i \in DOMAIN v.out : v.out[i].frame.kind = "request"
TriesLost(v, lost) ==
  2 * Delay <= v.timeout =>
    \/ v.tried <= lost
    \/ v.state = "WAITING_FOR_ANSWER" /\ v.tried <= lost + 1 /\ UnderWay(v)

\* The other side answers at once and keeps nothing.
Answers(v) == v.state = "IDLE" /\ v.queue = <<>> /\ v.incoming = <<>> /\ v.heard = <<>>

\* A side that asks and the one that answers it; of the losses only the module's are
\* counted.
ModuleAsks ==
  /\ Asks(MView) /\ Accounted(MView, ModuleRequest, ModuleNotice) /\ Answers(DView)
  /\ TriesLost(MView, losses)
DeviceAsks ==
  Asks(DView) /\ Accounted(DView, DeviceRequest, {}) /\ Answers(MView)

LinkTypes ==
  /\ speakers \in SUBSET {"module", "device"} /\ losses \in Nat
  /\ heard = [s \in {"module", "device"} |-> heard[s]]
  /\ m_timeout = d_timeout /\ m_cooldown = d_cooldown

LinkInv ==
  /\ LinkTypes
  /\ "device" \notin speakers => ModuleAsks
  /\ "module" \notin speakers => DeviceAsks

-----------------------------------------------------------------------------
(* Lines: what is taken off one, lost on it or put on it                   *)

\* l1 has no frame that l has not, and its last one last if that is left.
Part(l1, l) ==
  /\ l1 \in Seq(InFlight) /\ Len(l1) <= Len(l)
  /\ \A j \in DOMAIN l1 : \E i \in DOMAIN l :
       l1[j] = l[i] /\ (i = Len(l) => j = Len(l1))

LEMMA SameIsPart == ASSUME NEW l \in Seq(InFlight) PROVE Part(l, l)
  BY DEF Part

\* The frames that are left on a line.
LEMMA AfterFirstIsPart ==
  ASSUME NEW l \in Seq(InFlight), NEW n \in 0 .. Len(l)
  PROVE  /\ Part(AfterFirst(l, n), l) /\ Len(AfterFirst(l, n)) = Len(l) - n
         /\ n = 0 => AfterFirst(l, n) = l
         /\ n < Len(l) =>
              Len(l) - n \in DOMAIN AfterFirst(l, n) /\ AfterFirst(l, n)[Len(l) - n] = l[Len(l)]
<1> DEFINE k == n + 1
           m == SubSeq(l, k, Len(l))
<1>1. Len(l) \in Nat /\ n \in Nat /\ k \in Int /\ n <= Len(l)
  OBVIOUS
<1>2. \A i \in k .. Len(l) : l[i] \in InFlight
  BY <1>1, ElementOfSeq
<1> HIDE DEF k
<1>3. /\ m \in Seq(InFlight) /\ Len(m) = (IF k <= Len(l) THEN Len(l) - k + 1 ELSE 0)
      /\ \A j \in 1 .. Len(l) - k + 1 : m[j] = l[k + j - 1]
  BY <1>1, <1>2, SubSeqProperties
<1>a. AfterFirst(l, n) = m
  BY DEF AfterFirst, k
<1> HIDE DEF m
<1>4. Len(m) = Len(l) - n /\ DOMAIN m = 1 .. Len(l) - n
  <2>1. Len(m) = Len(l) - n
    BY <1>1, <1>3 DEF k
  <2>2. QED
    BY <2>1, <1>3, LenProperties
<1>5. ASSUME NEW j \in DOMAIN m PROVE j + n \in DOMAIN l /\ m[j] = l[j + n]
                                     /\ (j + n = Len(l) => j = Len(m))
  <2>1. j \in 1 .. Len(l) - k + 1 /\ k + j - 1 = j + n
    BY <1>1, <1>4 DEF k
  <2>2. m[j] = l[j + n]
    BY <2>1, <1>3
  <2>3. QED
    BY <2>2, <1>1, <1>4
<1>6. n = 0 => m = l
  <2>1. SUFFICES ASSUME n = 0 PROVE m = l
    OBVIOUS
  <2>2. Len(m) = Len(l) /\ \A j \in 1 .. Len(l) : m[j] = l[j]
    BY <1>1, <1>4, <1>5, <2>1
  <2>3. QED
    BY <1>3, <2>2, SeqEqual
<1>7. Part(m, l)
  BY <1>1, <1>3, <1>4, <1>5 DEF Part
<1>8. n < Len(l) => Len(l) - n \in DOMAIN m /\ m[Len(l) - n] = l[Len(l)]
  <2>1. SUFFICES ASSUME n < Len(l) PROVE Len(l) - n \in DOMAIN m /\ m[Len(l) - n] = l[Len(l)]
    OBVIOUS
  <2>2. Len(l) - n \in DOMAIN m /\ Len(l) - n + n = Len(l)
    BY <1>1, <1>4, <2>1
  <2>3. QED
    BY <2>2, <1>5
<1>9. QED
  BY <1>a, <1>4, <1>6, <1>7, <1>8

\* The frames that are read off it.
LEMMA FirstOfFrames ==
  ASSUME NEW l \in Seq(InFlight), NEW n \in 0 .. Len(l)
  PROVE  /\ FirstOf(l, n) \in Seq(Frame) /\ Len(FirstOf(l, n)) = n
         /\ DOMAIN FirstOf(l, n) = 1 .. n
         /\ \A i \in 1 .. n : i \in DOMAIN l /\ FirstOf(l, n)[i] = l[i].frame
         /\ n = 0 => FirstOf(l, n) = <<>>
<1>1. ASSUME NEW i \in 1 .. n PROVE i \in DOMAIN l /\ l[i].frame \in Frame
  <2>1. i \in 1 .. Len(l)
    OBVIOUS
  <2>2. l[i] \in InFlight
    BY <2>1, ElementOfSeq
  <2>3. QED
    BY <2>1, <2>2 DEF InFlight
<1>2. FirstOf(l, n) \in [1 .. n -> Frame]
  BY <1>1 DEF FirstOf
<1>3. FirstOf(l, n) \in Seq(Frame) /\ Len(FirstOf(l, n)) = n
  <2>1. n \in Nat
    OBVIOUS
  <2>2. QED
    BY <1>2, <2>1, SeqDef
<1>4. QED
  BY <1>1, <1>3 DEF FirstOf

\* A line that lost a frame.
LEMMA RemoveAtIsPart ==
  ASSUME NEW l \in Seq(InFlight), NEW k \in DOMAIN l
  PROVE  Part(RemoveAt(l, k), l)
<1> DEFINE a == SubSeq(l, 1, k - 1)
           b == SubSeq(l, k + 1, Len(l))
           m == RemoveAt(l, k)
<1>1. Len(l) \in Nat /\ k \in Nat /\ 1 <= k /\ k <= Len(l) /\ \A i \in 1 .. Len(l) : l[i] \in InFlight
  BY ElementOfSeq
<1>2. /\ a \in Seq(InFlight) /\ Len(a) = k - 1 /\ \A j \in 1 .. k - 1 : a[j] = l[j]
  <2>1. \A i \in 1 .. k - 1 : l[i] \in InFlight
    BY <1>1
  <2>2. /\ a \in Seq(InFlight) /\ Len(a) = (IF 1 <= k - 1 THEN k - 1 - 1 + 1 ELSE 0)
        /\ \A j \in 1 .. k - 1 - 1 + 1 : a[j] = l[1 + j - 1]
    BY <1>1, <2>1, SubSeqProperties
  <2>3. QED
    BY <1>1, <2>2
<1>3. /\ b \in Seq(InFlight) /\ Len(b) = Len(l) - k /\ \A j \in 1 .. Len(l) - k : b[j] = l[k + j]
  <2>1. \A i \in k + 1 .. Len(l) : l[i] \in InFlight
    BY <1>1
  <2>2. /\ b \in Seq(InFlight)
        /\ Len(b) = (IF k + 1 <= Len(l) THEN Len(l) - (k + 1) + 1 ELSE 0)
        /\ \A j \in 1 .. Len(l) - (k + 1) + 1 : b[j] = l[k + 1 + j - 1]
    BY <1>1, <2>1, SubSeqProperties
  <2>3. QED
    BY <1>1, <2>2
<1>4. m = a \o b
  BY DEF RemoveAt
<1> HIDE DEF a, b, m
<1>5. /\ m \in Seq(InFlight) /\ Len(m) = Len(l) - 1
      /\ \A j \in 1 .. Len(l) - 1 : m[j] = IF j < k THEN l[j] ELSE l[j + 1]
  <2>1. /\ m \in Seq(InFlight) /\ Len(m) = (k - 1) + (Len(l) - k)
        /\ \A j \in 1 .. (k - 1) + (Len(l) - k) :
             m[j] = IF j <= k - 1 THEN a[j] ELSE b[j - (k - 1)]
    BY <1>2, <1>3, <1>4, ConcatProperties
  <2>2. ASSUME NEW j \in 1 .. Len(l) - 1 PROVE m[j] = IF j < k THEN l[j] ELSE l[j + 1]
    <3>1. CASE j < k
      <4>1. j \in 1 .. k - 1 /\ j \in 1 .. (k - 1) + (Len(l) - k) /\ j <= k - 1
        BY <3>1, <1>1
      <4>2. QED
        BY <4>1, <3>1, <2>1, <1>2
    <3>2. CASE j >= k
      <4>1. /\ j - (k - 1) \in 1 .. Len(l) - k /\ j \in 1 .. (k - 1) + (Len(l) - k)
            /\ ~(j <= k - 1) /\ ~(j < k) /\ k + (j - (k - 1)) = j + 1
        BY <3>2, <1>1
      <4>2. QED
        BY <4>1, <2>1, <1>3
    <3>3. QED
      BY <3>1, <3>2, <1>1
  <2>3. QED
    BY <2>1, <2>2, <1>1
<1>6. ASSUME NEW j \in DOMAIN m
      PROVE  \E i \in DOMAIN l : m[j] = l[i] /\ (i = Len(l) => j = Len(m))
  <2>1. j \in 1 .. Len(l) - 1
    BY <1>5
  <2>2. CASE j < k
    BY <2>1, <2>2, <1>1, <1>5
  <2>3. CASE ~(j < k)
    <3>1. j + 1 \in DOMAIN l /\ (j + 1 = Len(l) => j = Len(m)) /\ m[j] = l[j + 1]
      BY <2>1, <2>3, <1>1, <1>5
    <3>2. QED
      BY <3>1
  <2>4. QED
    BY <2>2, <2>3
<1>7. QED
  BY <1>1, <1>5, <1>6 DEF Part, m

\* Nothing is put on a line.
LEMMA OnNothing == ASSUME NEW l \in Seq(InFlight) PROVE On(l, <<>>) = l
<1>1. [i \in DOMAIN <<>> |-> [frame |-> <<>>[i], age |-> 0]] = <<>>
  OBVIOUS
<1>2. QED
  BY <1>1, ConcatEmptySeq DEF On

\* A frame put on a line is its last, and new.
LEMMA OnLine ==
  ASSUME NEW l \in Seq(InFlight), NEW f \in Frame
  PROVE  /\ On(l, <<f>>) \in Seq(InFlight) /\ Len(On(l, <<f>>)) = Len(l) + 1
         /\ \A i \in 1 .. Len(l) : On(l, <<f>>)[i] = l[i]
         /\ On(l, <<f>>)[Len(l) + 1] = [frame |-> f, age |-> 0]
<1> DEFINE e == [frame |-> f, age |-> 0]
<1>1. [i \in DOMAIN <<f>> |-> [frame |-> <<f>>[i], age |-> 0]] = <<e>>
  OBVIOUS
<1>3. e \in InFlight
  BY LinkAssumption DEF InFlight
<1> HIDE DEF e
<1>4. On(l, <<f>>) = l \o <<e>>
  BY <1>1 DEF On, e
<1>6. <<e>> \in Seq(InFlight) /\ Len(<<e>>) = 1 /\ <<e>>[1] = e
  BY <1>3
<1>7. Len(l) \in Nat
  OBVIOUS
<1>8. /\ l \o <<e>> \in Seq(InFlight) /\ Len(l \o <<e>>) = Len(l) + 1
      /\ \A i \in 1 .. Len(l) + 1 :
           (l \o <<e>>)[i] = IF i <= Len(l) THEN l[i] ELSE <<e>>[i - Len(l)]
  BY <1>6, ConcatProperties
<1>9. \A i \in 1 .. Len(l) : (l \o <<e>>)[i] = l[i]
  BY <1>7, <1>8
<1>10. (l \o <<e>>)[Len(l) + 1] = e
  BY <1>6, <1>7, <1>8
<1>11. QED
  BY <1>4, <1>8, <1>9, <1>10 DEF e

\* A moment passes, and no frame is longer on the line than it may be.
LEMMA OlderLine ==
  ASSUME NEW l \in Seq(InFlight), \A i \in DOMAIN l : l[i].age < Delay
  PROVE  /\ Older(l) \in Seq(InFlight) /\ Len(Older(l)) = Len(l) /\ DOMAIN Older(l) = DOMAIN l
         /\ \A i \in DOMAIN l :
              Older(l)[i].frame = l[i].frame /\ Older(l)[i].age = l[i].age + 1
<1>1. Len(l) \in Nat /\ DOMAIN l = 1 .. Len(l)
  BY LenProperties
<1>2. ASSUME NEW i \in DOMAIN l
      PROVE  /\ Older(l)[i] \in InFlight
             /\ Older(l)[i].frame = l[i].frame /\ Older(l)[i].age = l[i].age + 1
  <2>1. l[i] \in InFlight
    BY <1>1, ElementOfSeq
  <2>2. Older(l)[i] = [l[i] EXCEPT !.age = @ + 1]
    BY DEF Older
  <2>3. l[i].age + 1 \in 0 .. Delay
    BY <2>1, LinkAssumption DEF InFlight
  <2>4. QED
    BY <2>1, <2>2, <2>3 DEF InFlight
<1>3. Older(l) \in [1 .. Len(l) -> InFlight]
  BY <1>1, <1>2 DEF Older
<1>4. Older(l) \in Seq(InFlight) /\ Len(Older(l)) = Len(l)
  BY <1>1, <1>3, SeqDef
<1>5. QED
  BY <1>2, <1>4, <1>1, <1>3

-----------------------------------------------------------------------------
(* The side that asks, when its view changes from v to w                   *)

\* What the side knows itself, but for the frames it keeps.
SameSide(v, w) ==
  /\ w.state = v.state /\ w.last = v.last /\ w.timeout = v.timeout
  /\ w.cooldown = v.cooldown /\ w.cool = v.cool /\ w.ans = v.ans /\ w.heard = v.heard

\* The types of what is on a line.
LEMMA LineFrames ==
  ASSUME NEW l \in Seq(InFlight)
  PROVE  /\ Len(l) \in Nat /\ DOMAIN l = 1 .. Len(l)
         /\ \A i \in DOMAIN l : /\ l[i].frame \in Frame /\ l[i].age \in Int
                                /\ l[i].age >= 0 /\ l[i].age <= Delay
         /\ Len(l) = 0 <=> l = <<>>
<1>1. Delay \in Nat
  BY LinkAssumption
<1>2. Len(l) \in Nat /\ DOMAIN l = 1 .. Len(l)
  BY LenProperties
<1>3. Len(l) = 0 <=> l = <<>>
  BY EmptySeq
<1>4. ASSUME NEW i \in DOMAIN l
      PROVE  l[i].frame \in Frame /\ l[i].age \in Int /\ l[i].age >= 0 /\ l[i].age <= Delay
  <2>1. l[i] \in InFlight
    BY <1>2, ElementOfSeq
  <2>2. QED
    BY <2>1, <1>1 DEF InFlight
<1>5. QED
  BY <1>2, <1>3, <1>4

\* Frames are lost, or dropped unseen.
LEMMA FewerKeeps ==
  ASSUME NEW v, NEW w, Asks(v), SameSide(v, w),
         Part(w.out, v.out), Part(w.back, v.back),
         w.incoming = v.incoming \/ w.incoming = <<>>
  PROVE  Asks(w)
<1>1. v.out \in Seq(InFlight) /\ v.back \in Seq(InFlight) /\ v.incoming \in Seq(Frame)
  BY DEF Asks, Shaped
<1>2. w.out \in Seq(InFlight) /\ w.back \in Seq(InFlight)
  BY DEF Part
<1>3. w.incoming \in Seq(Frame) /\ \A i \in DOMAIN w.incoming : w.incoming[i].kind = "answer"
  <2>1. CASE w.incoming = <<>>
    BY <2>1
  <2>2. CASE w.incoming = v.incoming
    BY <2>2 DEF Asks, Shaped, OnlyAnswers
  <2>3. QED
    BY <2>1, <2>2
<1>4. /\ \A j \in DOMAIN w.out : \E i \in DOMAIN v.out :
           w.out[j] = v.out[i] /\ (i = Len(v.out) => j = Len(w.out))
      /\ \A j \in DOMAIN w.back : \E i \in DOMAIN v.back :
           w.back[j] = v.back[i] /\ (i = Len(v.back) => j = Len(w.back))
      /\ Len(w.back) <= Len(v.back)
  BY DEF Part
<1>5. Shaped(w)
  BY <1>2, <1>3 DEF Asks, Shaped, SameSide
<1>6. OnlyAnswers(w)
  BY <1>3, <1>4 DEF Asks, OnlyAnswers, SameSide
<1>7. CoolTrip(w)
  BY <1>4 DEF Asks, CoolTrip, SameSide
<1>8. PromptTrip(w)
  <2>1. SUFFICES ASSUME 2 * Delay <= v.timeout PROVE PromptTrip(w)
    BY DEF PromptTrip, SameSide
  <2>2. w.incoming = <<>>
    BY <2>1 DEF Asks, PromptTrip
  <2>3. v.back = <<>> => w.back = <<>>
    BY <1>1, <1>2, <1>4, LineFrames
  <2>4. ASSUME NEW j \in DOMAIN w.out, w.out[j].frame.kind = "request"
        PROVE  /\ w.state = "WAITING_FOR_ANSWER" /\ j = Len(w.out) /\ w.back = <<>>
               /\ w.out[j].frame.of = w.last /\ w.ans + w.out[j].age >= w.timeout
    BY <2>1, <2>3, <2>4, <1>4 DEF Asks, PromptTrip, SameSide
  <2>5. ASSUME NEW j \in DOMAIN w.back
        PROVE  /\ w.state = "WAITING_FOR_ANSWER" /\ Len(w.back) = 1
               /\ w.back[j].frame.of = w.last /\ w.ans + w.back[j].age + Delay >= w.timeout
    <3>1. PICK i \in DOMAIN v.back : w.back[j] = v.back[i]
      BY <1>4
    <3>2. Len(w.back) = 1
      <4>1. Len(v.back) = 1
        BY <2>1, <3>1 DEF Asks, PromptTrip
      <4>2. Len(w.back) \in Nat /\ DOMAIN w.back = 1 .. Len(w.back)
        BY <1>2, LineFrames
      <4> DEFINE k == Len(w.back)
      <4>3. k <= 1 /\ k \in Nat /\ j \in 1 .. k
        BY <4>1, <4>2, <1>4
      <4> HIDE DEF k
      <4>4. k = 1
        BY <4>3
      <4>5. QED
        BY <4>4 DEF k
    <3>3. QED
      BY <2>1, <3>1, <3>2 DEF Asks, PromptTrip, SameSide
  <2>6. QED
    BY <2>2, <2>4, <2>5 DEF PromptTrip
<1>9. HeardRight(w)
  BY DEF Asks, HeardRight, SameSide
<1>10. QED
  BY <1>5, <1>6, <1>7, <1>8, <1>9 DEF Asks

\* With nothing to read, the cooldown over and no answer awaited, a message is written.
LEMMA WriteKeeps ==
  ASSUME NEW v, NEW w, Asks(v), NEW f \in Frame, f.kind \in {"request", "notify"},
         v.state = "IDLE", v.cool <= 0,
         w.state = (IF f.kind = "request" THEN "WAITING_FOR_ANSWER" ELSE "IDLE"),
         w.ans = (IF f.kind = "request" THEN v.timeout ELSE v.ans),
         w.last = f.of, w.cool = v.cooldown,
         w.timeout = v.timeout, w.cooldown = v.cooldown, w.heard = v.heard,
         w.incoming = <<>>, w.back = v.back, w.out = On(v.out, <<f>>)
  PROVE  Asks(w)
<1>1. /\ Delay \in Nat
      /\ v.timeout \in Nat /\ v.cooldown \in Nat /\ v.cool \in Int /\ v.ans \in Int /\ v.ans >= -1
      /\ v.out \in Seq(InFlight) /\ v.back \in Seq(InFlight)
  BY LinkAssumption DEF Asks, Shaped
<1>2. /\ w.out \in Seq(InFlight) /\ DOMAIN w.out = 1 .. Len(v.out) + 1
      /\ Len(w.out) = Len(v.out) + 1
      /\ \A i \in DOMAIN v.out : w.out[i] = v.out[i]
      /\ w.out[Len(v.out) + 1].frame = f /\ w.out[Len(v.out) + 1].age = 0
  <2>1. w.out \in Seq(InFlight) /\ Len(w.out) = Len(v.out) + 1
    BY <1>1, OnLine
  <2>2. DOMAIN w.out = 1 .. Len(v.out) + 1
    BY <2>1, LenProperties
  <2>3. DOMAIN v.out = 1 .. Len(v.out)
    BY <1>1, LenProperties
  <2>4. /\ \A i \in 1 .. Len(v.out) : w.out[i] = v.out[i]
        /\ w.out[Len(v.out) + 1] = [frame |-> f, age |-> 0]
    <3>1. /\ \A i \in 1 .. Len(v.out) : On(v.out, <<f>>)[i] = v.out[i]
          /\ On(v.out, <<f>>)[Len(v.out) + 1] = [frame |-> f, age |-> 0]
      BY <1>1, OnLine
    <3>2. QED
      BY <3>1
  <2>5. w.out[Len(v.out) + 1].frame = f /\ w.out[Len(v.out) + 1].age = 0
    BY <2>4
  <2>6. QED
    BY <2>1, <2>2, <2>3, <2>4, <2>5
<1>3. Len(v.out) \in Nat /\ DOMAIN v.out = 1 .. Len(v.out)
  BY <1>1, LenProperties
<1>4. ASSUME NEW i \in DOMAIN w.out
      PROVE  i \in DOMAIN v.out \/ i = Len(v.out) + 1
  BY <1>2, <1>3
<1>5. Shaped(w)
  BY <1>1, <1>2 DEF Asks, Shaped
<1>6. OnlyAnswers(w)
  BY <1>2, <1>4 DEF Asks, OnlyAnswers
<1>7. CoolTrip(w)
  <2>1. SUFFICES ASSUME 2 * Delay < v.cooldown PROVE CoolTrip(w)
    BY DEF CoolTrip
  <2>2. ASSUME NEW i \in DOMAIN v.out PROVE FALSE
    <3>1. v.out[i].age \in Int /\ v.out[i].age <= Delay
      BY <1>1, LineFrames
    <3>2. v.cool + v.out[i].age >= v.cooldown
      BY <2>1 DEF Asks, CoolTrip
    <3>3. QED
      BY SMTT(30), <3>1, <3>2, <2>1, <1>1
  <2>3. ASSUME NEW i \in DOMAIN v.back PROVE FALSE
    <3>1. v.back[i].age \in Int /\ v.back[i].age <= Delay
      BY <1>1, LineFrames
    <3>2. v.cool + v.back[i].age + Delay >= v.cooldown
      BY <2>1 DEF Asks, CoolTrip
    <3>3. QED
      BY SMTT(30), <3>1, <3>2, <2>1, <1>1
  <2>4. ASSUME NEW i \in DOMAIN w.out
        PROVE  w.out[i].frame.of = w.last /\ w.cool + w.out[i].age >= w.cooldown
    <3>1. i = Len(v.out) + 1
      BY <1>4, <2>2
    <3>2. w.out[i].frame = f /\ w.out[i].age = 0
      BY <3>1, <1>2
    <3>3. QED
      BY <3>2, <1>1
  <2>5. QED
    BY <2>3, <2>4 DEF CoolTrip
<1>8. PromptTrip(w)
  <2>1. SUFFICES ASSUME 2 * Delay <= v.timeout PROVE PromptTrip(w)
    BY DEF PromptTrip
  <2>2. \A i \in DOMAIN v.out : v.out[i].frame.kind # "request"
    BY <2>1 DEF Asks, PromptTrip
  <2>3. \A i \in DOMAIN v.back : FALSE
    BY <2>1 DEF Asks, PromptTrip
  <2>4. w.back = <<>>
    BY <2>3, <1>1, LineFrames
  <2>5. ASSUME NEW i \in DOMAIN w.out, w.out[i].frame.kind = "request"
        PROVE  /\ w.state = "WAITING_FOR_ANSWER" /\ i = Len(w.out)
               /\ w.out[i].frame.of = w.last /\ w.ans + w.out[i].age >= w.timeout
    <3>1. i = Len(v.out) + 1
      BY <1>2, <1>4, <2>2, <2>5
    <3>2. f.kind = "request"
      BY <3>1, <2>5, <1>2
    <3>3. QED
      BY <3>1, <3>2, <1>1, <1>2
  <2>6. QED
    BY <2>3, <2>4, <2>5 DEF PromptTrip
<1>9. HeardRight(w)
  BY DEF Asks, HeardRight
<1>10. QED
  BY <1>5, <1>6, <1>7, <1>8, <1>9 DEF Asks

\* With a long answer time, nothing is under way when it is over.
LEMMA NothingLate ==
  ASSUME NEW v, Asks(v), 2 * Delay <= v.timeout, v.state = "IDLE" \/ v.ans < 0
  PROVE  ~UnderWay(v) /\ v.back = <<>>
<1>1. /\ Delay \in Nat /\ v.timeout \in Nat /\ v.ans \in Int
      /\ v.out \in Seq(InFlight) /\ v.back \in Seq(InFlight)
  BY LinkAssumption DEF Asks, Shaped
<1>2. ASSUME NEW i \in DOMAIN v.out PROVE v.out[i].frame.kind # "request"
  <2>1. v.out[i].age \in Int /\ v.out[i].age <= Delay
    BY <1>1, LineFrames
  <2>2. v.out[i].frame.kind = "request" =>
          v.state = "WAITING_FOR_ANSWER" /\ v.ans + v.out[i].age >= v.timeout
    BY DEF Asks, PromptTrip
  <2>3. QED
    BY <2>1, <2>2, <1>1
<1>3. ASSUME NEW i \in DOMAIN v.back PROVE FALSE
  <2>1. v.back[i].age \in Int /\ v.back[i].age <= Delay
    BY <1>1, LineFrames
  <2>2. v.state = "WAITING_FOR_ANSWER" /\ v.ans + v.back[i].age + Delay >= v.timeout
    BY DEF Asks, PromptTrip
  <2>3. QED
    BY <2>1, <2>2, <1>1
<1>4. v.back = <<>>
  BY <1>1, <1>3, LineFrames
<1>5. QED
  BY <1>2, <1>4 DEF UnderWay

\* Frames are read while an answer is awaited, and it is awaited no longer.
LEMMA EndsWait ==
  ASSUME NEW v, NEW w, Asks(v), NEW n \in 0 .. Len(v.back),
         w.state = "IDLE", w.last = v.last, w.timeout = v.timeout,
         w.cooldown = v.cooldown, w.cool = v.cool, w.ans = v.ans,
         w.out = v.out, w.back = AfterFirst(v.back, n), HeardRight(w),
         w.incoming \in Seq(Frame),
         \A i \in DOMAIN w.incoming : w.incoming[i].kind = "answer",
         2 * Delay <= v.timeout =>
           /\ w.incoming = <<>> /\ w.back = <<>>
           /\ \A i \in DOMAIN v.out : v.out[i].frame.kind # "request"
  PROVE  Asks(w)
<1>1. v.back \in Seq(InFlight) /\ v.out \in Seq(InFlight)
  BY DEF Asks, Shaped
<1>2. Part(w.back, v.back)
  BY <1>1, AfterFirstIsPart
<1>3. /\ w.back \in Seq(InFlight)
      /\ \A j \in DOMAIN w.back : \E i \in DOMAIN v.back : w.back[j] = v.back[i]
  BY <1>2 DEF Part
<1>4. Shaped(w)
  BY <1>3 DEF Asks, Shaped
<1>5. OnlyAnswers(w)
  BY <1>3 DEF Asks, OnlyAnswers
<1>6. CoolTrip(w)
  BY <1>3 DEF Asks, CoolTrip
<1>7. PromptTrip(w)
  BY EmptySeq DEF PromptTrip
<1>8. QED
  BY <1>4, <1>5, <1>6, <1>7 DEF Asks

\* The answer time is over: the frames that arrive then are kept for the message handler.
LEMMA GiveUpKeeps ==
  ASSUME NEW v, NEW w, Asks(v), NEW n \in 0 .. Len(v.back),
         v.ans < 0, w.incoming = FirstOf(v.back, n),
         w.state = "IDLE", w.last = v.last, w.timeout = v.timeout,
         w.cooldown = v.cooldown, w.cool = v.cool, w.ans = v.ans, w.heard = v.heard,
         w.out = v.out, w.back = AfterFirst(v.back, n)
  PROVE  Asks(w)
<1>1. v.back \in Seq(InFlight)
  BY DEF Asks, Shaped
<1>2. /\ w.incoming \in Seq(Frame)
      /\ \A i \in DOMAIN w.incoming : w.incoming[i].kind = "answer"
  BY <1>1, FirstOfFrames DEF Asks, OnlyAnswers
<1>3. ASSUME 2 * Delay <= v.timeout
      PROVE  /\ w.incoming = <<>> /\ w.back = <<>>
             /\ \A i \in DOMAIN v.out : v.out[i].frame.kind # "request"
  <2>1. ~UnderWay(v) /\ v.back = <<>>
    BY <1>3, NothingLate
  <2>2. n = 0
    BY <1>1, <2>1, EmptySeq
  <2>3. w.incoming = <<>> /\ w.back = v.back
    BY <1>1, <2>2, FirstOfFrames, AfterFirstIsPart
  <2>4. QED
    BY <2>1, <2>3 DEF UnderWay
<1>4. HeardRight(w)
  BY DEF Asks, HeardRight
<1>5. QED
  BY <1>2, <1>3, <1>4, EndsWait

\* A frame is there in time, and is given to the answer handler: it is the answer to the
\* request awaited.
LEMMA AnswerKeeps ==
  ASSUME NEW v, NEW w, Asks(v), NEW n \in 1 .. Len(v.back),
         w.incoming = Tail(FirstOf(v.back, n)),
         w.heard = <<v.last, Head(FirstOf(v.back, n))>>,
         w.state = "IDLE", w.last = v.last, w.timeout = v.timeout,
         w.cooldown = v.cooldown, w.cool = v.cool, w.ans = v.ans,
         w.out = v.out, w.back = AfterFirst(v.back, n)
  PROVE  Asks(w)
<1> DEFINE frames == FirstOf(v.back, n)
<1>1. v.back \in Seq(InFlight) /\ n \in 0 .. Len(v.back) /\ n \in Nat /\ n >= 1 /\ 1 \in DOMAIN v.back
      /\ v.out \in Seq(InFlight)
  BY LenProperties DEF Asks, Shaped
<1>2. /\ frames \in Seq(Frame) /\ Len(frames) = n /\ DOMAIN frames = 1 .. n
      /\ \A i \in 1 .. n : i \in DOMAIN v.back /\ frames[i] = v.back[i].frame
  BY <1>1, FirstOfFrames
<1> HIDE DEF frames
<1>3. \A i \in 1 .. n : frames[i].kind = "answer"
  BY <1>2 DEF Asks, OnlyAnswers
<1>4. frames # <<>> /\ Head(frames) = frames[1]
  <2>1. frames # <<>>
    BY <1>1, <1>2, EmptySeq
  <2>2. QED
    BY <1>2, <2>1
<1>5. /\ Tail(frames) \in Seq(Frame) /\ Len(Tail(frames)) = n - 1
      /\ DOMAIN Tail(frames) = 1 .. n - 1
      /\ \A i \in 1 .. n - 1 : Tail(frames)[i] = frames[i + 1]
  <2>1. /\ Tail(frames) \in Seq(Frame) /\ Len(Tail(frames)) = n - 1
        /\ \A i \in 1 .. Len(Tail(frames)) : Tail(frames)[i] = frames[i + 1]
    BY <1>2, <1>4, HeadTailProperties
  <2>2. DOMAIN Tail(frames) = 1 .. Len(Tail(frames))
    BY <2>1, LenProperties
  <2>3. QED
    BY <2>1, <2>2
<1>6. /\ w.incoming \in Seq(Frame)
      /\ \A i \in DOMAIN w.incoming : w.incoming[i].kind = "answer"
  <2>1. w.incoming = Tail(frames)
    BY DEF frames
  <2>2. ASSUME NEW i \in 1 .. n - 1 PROVE w.incoming[i].kind = "answer"
    <3>1. i + 1 \in 1 .. n
      BY <1>1
    <3>2. QED
      BY <2>1, <3>1, <1>3, <1>5
  <2>3. QED
    BY <2>1, <2>2, <1>5
<1>7. ASSUME 2 * Delay <= v.timeout
      PROVE  /\ w.incoming = <<>> /\ w.back = <<>>
             /\ \A i \in DOMAIN v.out : v.out[i].frame.kind # "request"
  <2>1. Len(v.back) = 1
    BY <1>1, <1>7 DEF Asks, PromptTrip
  <2>2. n = 1
    BY <2>1, <1>1
  <2>3. Len(w.incoming) = 0
    BY <2>2, <1>5 DEF frames
  <2>4. w.incoming = <<>>
    BY <2>3, <1>6, EmptySeq
  <2>5. w.back \in Seq(InFlight) /\ Len(w.back) = 0
    BY <2>1, <2>2, <1>1, AfterFirstIsPart DEF Part
  <2>6. w.back = <<>>
    BY <2>5, LineFrames
  <2>7. v.back # <<>>
    BY <2>1, <1>1, LineFrames
  <2>8. QED
    BY <2>4, <2>6, <2>7, <1>7 DEF Asks, PromptTrip
<1>8. HeardRight(w)
  <2>1. SUFFICES ASSUME 2 * Delay <= v.timeout \/ 2 * Delay < v.cooldown
                 PROVE  frames[1] = [kind |-> "answer", of |-> v.last]
    BY <1>4 DEF HeardRight, frames
  <2>2. v.back[1].frame.of = v.last
    BY <1>1, <2>1 DEF Asks, CoolTrip, PromptTrip
  <2>3. frames[1] \in Frame /\ frames[1].kind = "answer" /\ frames[1].of = v.last
    <3>1. 1 \in 1 .. n
      BY <1>1
    <3>2. QED
      BY <3>1, <1>2, <1>3, <2>2, ElementOfSeq
  <2>4. QED
    BY <2>3 DEF Frame
<1>9. QED
  BY <1>1, <1>6, <1>7, <1>8, EndsWait

\* What the other side answers to n frames that it reads off the line.
Reply(l, n) ==
  IF n > 0 /\ l[n].frame.kind = "request"
    THEN <<[kind |-> "answer", of |-> l[n].frame.of]>> ELSE <<>>

\* The other side reads n frames and answers the last one if it is a request.
LEMMA ReplyKeeps ==
  ASSUME NEW v, NEW w, Asks(v), SameSide(v, w), NEW n \in 0 .. Len(v.out),
         w.incoming = v.incoming,
         w.out = AfterFirst(v.out, n), w.back = On(v.back, Reply(v.out, n))
  PROVE  /\ Asks(w)
         /\ 2 * Delay <= v.timeout /\ v.state = "WAITING_FOR_ANSWER" /\ UnderWay(v) => UnderWay(w)
<1>1. v.back \in Seq(InFlight) /\ v.out \in Seq(InFlight)
  BY DEF Asks, Shaped
<1>2. Part(w.out, v.out) /\ Len(w.out) = Len(v.out) - n
  BY <1>1, AfterFirstIsPart
<1>3. /\ w.out \in Seq(InFlight)
      /\ \A j \in DOMAIN w.out : \E i \in DOMAIN v.out :
           w.out[j] = v.out[i] /\ (i = Len(v.out) => j = Len(w.out))
  BY <1>2 DEF Part
<1>4. Len(v.out) \in Nat /\ DOMAIN v.out = 1 .. Len(v.out)
      /\ Len(v.back) \in Nat /\ DOMAIN v.back = 1 .. Len(v.back)
  BY <1>1, LenProperties
<1>5. CASE n > 0 /\ v.out[n].frame.kind = "request"
  <2> DEFINE f == [kind |-> "answer", of |-> v.out[n].frame.of]
  <2>1. n \in DOMAIN v.out /\ v.out[n].frame \in Frame /\ v.out[n].age \in Int /\ v.out[n].age <= Delay
    BY <1>1, <1>4, <1>5, LineFrames
  <2>2. f \in Frame
    BY <2>1, <1>5 DEF Frame
  <2>3. Reply(v.out, n) = <<f>>
    BY <1>5 DEF Reply
  <2>f. f.kind = "answer" /\ f.of = v.out[n].frame.of
    OBVIOUS
  <2> HIDE DEF f
  <2>4. /\ On(v.back, <<f>>) \in Seq(InFlight) /\ Len(On(v.back, <<f>>)) = Len(v.back) + 1
        /\ \A i \in 1 .. Len(v.back) : On(v.back, <<f>>)[i] = v.back[i]
        /\ On(v.back, <<f>>)[Len(v.back) + 1] = [frame |-> f, age |-> 0]
    BY <1>1, <2>2, OnLine
  <2>5. /\ w.back \in Seq(InFlight) /\ Len(w.back) = Len(v.back) + 1
        /\ DOMAIN w.back = 1 .. Len(v.back) + 1
        /\ \A i \in DOMAIN v.back : w.back[i] = v.back[i]
        /\ w.back[Len(v.back) + 1].frame = f /\ w.back[Len(v.back) + 1].age = 0
    <3>1. w.back = On(v.back, <<f>>)
      BY <2>3
    <3>2. DOMAIN w.back = 1 .. Len(v.back) + 1
      BY <2>4, <3>1, LenProperties
    <3>3. QED
      BY <2>4, <3>1, <3>2, <1>4
  <2>6. ASSUME NEW i \in DOMAIN w.back PROVE i \in DOMAIN v.back \/ i = Len(v.back) + 1
    BY <2>5, <1>4
  <2>7. Shaped(w)
    BY <1>3, <2>5 DEF Asks, Shaped, SameSide
  <2>8. OnlyAnswers(w)
    BY SMTT(30), <1>3, <2>5, <2>6, <2>f DEF Asks, OnlyAnswers, SameSide
  <2>a. /\ Delay \in Nat /\ v.cool \in Int /\ v.ans \in Int
        /\ v.cooldown \in Nat /\ v.timeout \in Nat
    BY LinkAssumption DEF Asks, Shaped
  <2>9. CoolTrip(w)
    <3>1. SUFFICES ASSUME 2 * Delay < v.cooldown PROVE CoolTrip(w)
      BY DEF CoolTrip, SameSide
    <3>2. v.out[n].frame.of = v.last /\ v.cool + v.out[n].age >= v.cooldown
      BY <3>1, <2>1 DEF Asks, CoolTrip
    <3>3. v.cool + 0 + Delay >= v.cooldown
      BY <3>2, <2>1, <2>a
    <3>4. ASSUME NEW i \in DOMAIN w.back
          PROVE  w.back[i].frame.of = w.last /\ w.cool + w.back[i].age + Delay >= w.cooldown
      BY <3>1, <3>2, <3>3, <2>5, <2>6, <2>f DEF Asks, CoolTrip, SameSide
    <3>5. QED
      BY <3>1, <3>4, <1>3 DEF Asks, CoolTrip, SameSide
  <2>10. PromptTrip(w)
    <3>1. SUFFICES ASSUME 2 * Delay <= v.timeout PROVE PromptTrip(w)
      BY DEF PromptTrip, SameSide
    <3>2. /\ v.state = "WAITING_FOR_ANSWER" /\ n = Len(v.out) /\ v.back = <<>>
          /\ v.out[n].frame.of = v.last /\ v.ans + v.out[n].age >= v.timeout
          /\ v.incoming = <<>>
      BY <3>1, <1>5, <2>1 DEF Asks, PromptTrip
    <3>3. v.ans + 0 + Delay >= v.timeout
      BY <3>2, <2>1, <2>a
    <3>4. w.out = <<>>
      BY <3>2, <1>2, <1>3, <1>4, LineFrames
    <3>5. Len(v.back) = 0
      BY <3>2, EmptySeq
    <3>6. ASSUME NEW i \in DOMAIN w.back PROVE i = 1 /\ w.back[i].frame = f /\ w.back[i].age = 0
      BY <3>5, <2>5
    <3>7. Len(w.back) = 1
      BY <3>5, <2>5
    <3>8. QED
      BY <3>2, <3>3, <3>4, <3>6, <3>7, <2>f, EmptySeq DEF PromptTrip, SameSide
  <2>11. HeardRight(w)
    BY DEF Asks, HeardRight, SameSide
  <2>12. w.back # <<>>
    BY <2>5, <1>4, EmptySeq
  <2>13. QED
    BY <2>7, <2>8, <2>9, <2>10, <2>11, <2>12 DEF Asks, UnderWay
<1>6. CASE ~(n > 0 /\ v.out[n].frame.kind = "request")
  <2>1. w.back = v.back
    <3>1. Reply(v.out, n) = <<>>
      BY <1>6 DEF Reply
    <3>2. QED
      BY <3>1, <1>1, OnNothing
  <2>2. Part(w.back, v.back)
    BY <2>1, <1>1, SameIsPart
  <2>3. Asks(w)
    BY <1>2, <2>2, FewerKeeps
  <2>4. ASSUME 2 * Delay <= v.timeout, v.state = "WAITING_FOR_ANSWER", UnderWay(v) PROVE UnderWay(w)
    <3>1. CASE v.back # <<>>
      BY <3>1, <2>1 DEF UnderWay
    <3>2. CASE v.back = <<>>
      <4>1. PICK i \in DOMAIN v.out : v.out[i].frame.kind = "request"
        BY <2>4, <3>2 DEF UnderWay
      <4>2. i = Len(v.out)
        BY <4>1, <2>4 DEF Asks, PromptTrip
      <4>3. n < Len(v.out)
        <5>1. n # Len(v.out)
          BY <1>6, <4>1, <4>2, <1>4
        <5>2. QED
          BY <5>1, <1>4
      <4>4. i - n \in DOMAIN w.out /\ w.out[i - n] = v.out[i]
        BY <4>2, <4>3, <1>1, AfterFirstIsPart
      <4>5. QED
        BY <4>1, <4>4 DEF UnderWay
    <3>3. QED
      BY <3>1, <3>2
  <2>5. QED
    BY <2>3, <2>4
<1>7. QED
  BY <1>5, <1>6

\* What is left and an age make no less of a sum when a moment passes.
LEMMA SumStays ==
  ASSUME NEW left \in Int, NEW later \in Int, later >= left - 1,
         NEW age \in Int, NEW older, older = age + 1, NEW k \in Int, NEW trip \in Int
  PROVE  /\ left + age >= k => later + older >= k
         /\ left + age + trip >= k => later + older + trip >= k
  OBVIOUS

\* A moment passes: with the ages of the frames the time left goes down.
LEMMA TimeKeeps ==
  ASSUME NEW v, NEW w, Asks(v),
         \A i \in DOMAIN v.out : v.out[i].age < Delay,
         \A i \in DOMAIN v.back : v.back[i].age < Delay,
         w.state = v.state, w.incoming = v.incoming, w.last = v.last, w.heard = v.heard,
         w.timeout = v.timeout, w.cooldown = v.cooldown,
         w.cool = M!Left(v.cool, 1), w.ans = M!Left(v.ans, 1),
         w.out = Older(v.out), w.back = Older(v.back)
  PROVE  Asks(w) /\ (UnderWay(v) => UnderWay(w))
<1>1. /\ v.cool \in Int /\ v.cool >= -1 /\ v.ans \in Int /\ v.ans >= -1 /\ Delay \in Nat
      /\ v.timeout \in Nat /\ v.cooldown \in Nat
      /\ v.out \in Seq(InFlight) /\ v.back \in Seq(InFlight)
  BY LinkAssumption DEF Asks, Shaped
<1>2. /\ w.cool \in Int /\ w.cool >= -1 /\ w.cool >= v.cool - 1
      /\ w.ans \in Int /\ w.ans >= -1 /\ w.ans >= v.ans - 1
  BY <1>1 DEF M!Left
<1>3. /\ w.out \in Seq(InFlight) /\ Len(w.out) = Len(v.out) /\ DOMAIN w.out = DOMAIN v.out
      /\ \A i \in DOMAIN v.out : w.out[i].frame = v.out[i].frame /\ w.out[i].age = v.out[i].age + 1
  BY <1>1, OlderLine
<1>4. /\ w.back \in Seq(InFlight) /\ Len(w.back) = Len(v.back) /\ DOMAIN w.back = DOMAIN v.back
      /\ \A i \in DOMAIN v.back : w.back[i].frame = v.back[i].frame /\ w.back[i].age = v.back[i].age + 1
  BY <1>1, OlderLine
<1>5. ASSUME NEW i \in DOMAIN v.out
      PROVE  /\ v.cool + v.out[i].age >= v.cooldown => w.cool + w.out[i].age >= v.cooldown
             /\ v.ans + v.out[i].age >= v.timeout => w.ans + w.out[i].age >= v.timeout
  <2>1. v.out[i].age \in Int /\ w.out[i].age = v.out[i].age + 1
    BY <1>1, <1>3, LineFrames
  <2>2. /\ v.cool \in Int /\ w.cool \in Int /\ w.cool >= v.cool - 1 /\ v.cooldown \in Int
        /\ v.ans \in Int /\ w.ans \in Int /\ w.ans >= v.ans - 1 /\ v.timeout \in Int
        /\ Delay \in Int
    BY <1>1, <1>2
  <2>3. v.cool + v.out[i].age >= v.cooldown => w.cool + w.out[i].age >= v.cooldown
    BY <2>1, <2>2, SumStays
  <2>4. v.ans + v.out[i].age >= v.timeout => w.ans + w.out[i].age >= v.timeout
    BY <2>1, <2>2, SumStays
  <2>5. QED
    BY <2>3, <2>4
<1>6. ASSUME NEW i \in DOMAIN v.back
      PROVE  /\ v.cool + v.back[i].age + Delay >= v.cooldown =>
                   w.cool + w.back[i].age + Delay >= v.cooldown
             /\ v.ans + v.back[i].age + Delay >= v.timeout =>
                   w.ans + w.back[i].age + Delay >= v.timeout
  <2>1. v.back[i].age \in Int /\ w.back[i].age = v.back[i].age + 1
    BY <1>1, <1>4, LineFrames
  <2>2. /\ v.cool \in Int /\ w.cool \in Int /\ w.cool >= v.cool - 1 /\ v.cooldown \in Int
        /\ v.ans \in Int /\ w.ans \in Int /\ w.ans >= v.ans - 1 /\ v.timeout \in Int
        /\ Delay \in Int
    BY <1>1, <1>2
  <2>3. v.cool + v.back[i].age + Delay >= v.cooldown => w.cool + w.back[i].age + Delay >= v.cooldown
    BY <2>1, <2>2, SumStays
  <2>4. v.ans + v.back[i].age + Delay >= v.timeout => w.ans + w.back[i].age + Delay >= v.timeout
    BY <2>1, <2>2, SumStays
  <2>5. QED
    BY <2>3, <2>4
<1>7. v.back = <<>> <=> w.back = <<>>
  BY <1>1, <1>4, LineFrames
<1>8. Shaped(w)
  BY <1>2, <1>3, <1>4 DEF Asks, Shaped
<1>9. OnlyAnswers(w)
  BY <1>3, <1>4 DEF Asks, OnlyAnswers
<1>10. CoolTrip(w)
  <2>1. SUFFICES ASSUME 2 * Delay < v.cooldown PROVE CoolTrip(w)
    BY DEF CoolTrip
  <2>2. ASSUME NEW i \in DOMAIN w.out
        PROVE  w.out[i].frame.of = w.last /\ w.cool + w.out[i].age >= w.cooldown
    <3>1. v.out[i].frame.of = v.last /\ v.cool + v.out[i].age >= v.cooldown
      BY <2>1, <1>3 DEF Asks, CoolTrip
    <3>2. QED
      BY <3>1, <1>3, <1>5
  <2>3. ASSUME NEW i \in DOMAIN w.back
        PROVE  w.back[i].frame.of = w.last /\ w.cool + w.back[i].age + Delay >= w.cooldown
    <3>1. v.back[i].frame.of = v.last /\ v.cool + v.back[i].age + Delay >= v.cooldown
      BY <2>1, <1>4 DEF Asks, CoolTrip
    <3>2. QED
      BY <3>1, <1>4, <1>6
  <2>4. QED
    BY <2>2, <2>3 DEF CoolTrip
<1>11. PromptTrip(w)
  <2>1. SUFFICES ASSUME 2 * Delay <= v.timeout PROVE PromptTrip(w)
    BY DEF PromptTrip
  <2>2. ASSUME NEW i \in DOMAIN w.out, w.out[i].frame.kind = "request"
        PROVE  /\ w.state = "WAITING_FOR_ANSWER" /\ i = Len(w.out) /\ w.back = <<>>
               /\ w.out[i].frame.of = w.last /\ w.ans + w.out[i].age >= w.timeout
    <3>1. /\ v.state = "WAITING_FOR_ANSWER" /\ i = Len(v.out) /\ v.back = <<>>
          /\ v.out[i].frame.of = v.last /\ v.ans + v.out[i].age >= v.timeout
      BY <2>1, <2>2, <1>3 DEF Asks, PromptTrip
    <3>2. w.ans + w.out[i].age >= v.timeout
      BY <3>1, <1>3, <1>5
    <3>3. QED
      BY <3>1, <3>2, <1>3, <1>7
  <2>3. ASSUME NEW i \in DOMAIN w.back
        PROVE  /\ w.state = "WAITING_FOR_ANSWER" /\ Len(w.back) = 1
               /\ w.back[i].frame.of = w.last /\ w.ans + w.back[i].age + Delay >= w.timeout
    <3>1. /\ v.state = "WAITING_FOR_ANSWER" /\ Len(v.back) = 1
          /\ v.back[i].frame.of = v.last /\ v.ans + v.back[i].age + Delay >= v.timeout
      BY <2>1, <1>4 DEF Asks, PromptTrip
    <3>2. w.ans + w.back[i].age + Delay >= v.timeout
      BY <3>1, <1>4, <1>6
    <3>3. QED
      BY <3>1, <3>2, <1>4
  <2>4. w.incoming = <<>>
    BY <2>1 DEF Asks, PromptTrip
  <2>5. QED
    BY <2>2, <2>3, <2>4 DEF PromptTrip
<1>12. HeardRight(w)
  BY DEF Asks, HeardRight
<1>13. UnderWay(v) => UnderWay(w)
  BY <1>3, <1>7 DEF UnderWay
<1>14. QED
  BY <1>8, <1>9, <1>10, <1>11, <1>12, <1>13 DEF Asks

-----------------------------------------------------------------------------
(* A call of loop() that reads n frames, told of the view                  *)

Frames(v, n) == v.incoming \o FirstOf(v.back, n)
Run(v, n) == HandlerRun(v.state, Frames(v, n))
Seen(v, n) == IF Run(v, n).answered THEN {M!Answering} ELSE {}
CoolThen(v, n) == IF Run(v, n).answered THEN Run(v, n).took + v.cooldown ELSE v.cool

\* In IDLE: nothing is written; a message without tries is dropped; one is written.
RestTurn(v, w, n) ==
  /\ w.state = v.state /\ w.last = v.last /\ w.tried = v.tried
  /\ w.queue = v.queue \o <<>> /\ w.calls = Seen(v, n)
  /\ w.cool = M!Left(CoolThen(v, n), 0) /\ w.ans = M!Left(v.ans, 0)
DropTurn(v, w, n) ==
  /\ v.queue \o <<>> # <<>>
  /\ w.state = v.state /\ w.last = v.last /\ w.tried = 0
  /\ w.queue = Tail(v.queue \o <<>>)
  /\ w.calls = Seen(v, n) \cup {M!Call("drop", Head(v.queue \o <<>>).msg)}
  /\ w.cool = M!Left(CoolThen(v, n), 0) /\ w.ans = M!Left(v.ans, 0)
WriteTurn(v, w, n) ==
  LET item == Head(v.queue \o <<>>)
  IN  /\ v.queue \o <<>> # <<>> /\ CoolThen(v, n) <= 0 /\ item.number_of_retries > 0
      /\ w.last = item.msg /\ w.cool = v.cooldown
      /\ w.calls = Seen(v, n)
                   \cup {M!Call(IF item.no_answer THEN "notify" ELSE "request", item.msg)}
      /\ IF item.no_answer
           THEN /\ w.queue = Tail(v.queue \o <<>>) /\ w.tried = 0
                /\ w.state = v.state /\ w.ans = M!Left(v.ans, 0)
           ELSE /\ w.queue = M!UseTry(v.queue \o <<>>) /\ w.tried = v.tried + 1
                /\ w.state = "WAITING_FOR_ANSWER" /\ w.ans = M!Left(v.timeout, 0)
IdleTurn(v, w, n) ==
  /\ v.state = "IDLE" /\ w.incoming = <<>>
  /\ RestTurn(v, w, n) \/ DropTurn(v, w, n) \/ WriteTurn(v, w, n)

\* While an answer is awaited: its time is over, with a try left or none; it is there; or
\* nothing is.
OverTurn(v, w, n) ==
  /\ v.ans < 0 /\ w.incoming = Frames(v, n) /\ w.state = "IDLE"
  /\ \/ /\ w.queue = v.queue /\ w.calls = {} /\ w.tried = v.tried
        /\ w.cool = v.cool /\ w.ans = v.ans
     \/ /\ Head(v.queue).number_of_retries = 0
        /\ w.queue = Tail(v.queue) \o <<>> /\ w.calls = {M!Call("expire", v.last)} /\ w.tried = 0
        /\ w.cool = M!Left(v.cool, 0) /\ w.ans = M!Left(v.ans, 0)
AnsweredTurn(v, w, n) ==
  /\ v.ans >= 0 /\ Frames(v, n) # <<>> /\ w.incoming = Tail(Frames(v, n)) /\ w.state = "IDLE"
  /\ w.queue = Tail(v.queue) \o <<>> /\ w.calls = {M!Call("answered", v.last)} /\ w.tried = 0
  /\ w.cool = M!Left(v.cool, 0) /\ w.ans = M!Left(v.ans, 0)
WaitTurn(v, w, n) ==
  /\ v.ans >= 0 /\ FirstOf(v.back, n) = <<>> /\ v.incoming = <<>>
  /\ w.state = v.state /\ w.incoming = v.incoming /\ w.queue = v.queue
  /\ w.calls = {} /\ w.tried = v.tried /\ w.cool = v.cool /\ w.ans = v.ans
WaitingTurn(v, w, n) ==
  /\ v.state = "WAITING_FOR_ANSWER" /\ w.last = v.last
  /\ OverTurn(v, w, n) \/ AnsweredTurn(v, w, n) \/ WaitTurn(v, w, n)

Turn(v, w, n) ==
  /\ w.timeout = v.timeout /\ w.cooldown = v.cooldown
  /\ w.back = AfterFirst(v.back, n)
  /\ w.out = On(v.out, Written(w.calls, Frames(v, n)))
  /\ w.heard = IF \E c \in w.calls : c.op = "answered"
                 THEN <<(CHOOSE c \in w.calls : c.op = "answered").msg, Head(Frames(v, n))>>
                 ELSE v.heard
  /\ IdleTurn(v, w, n) \/ WaitingTurn(v, w, n)

\* The operation on sets that Written uses, for the sets that it meets.
LEMMA SmallSets == SetToSeq({}) = <<>> /\ \A x : SetToSeq({x}) = <<x>>
<1>1. SetToSeq({}) = <<>>
  <2>1. Cardinality({}) = 0
    BY FS_EmptySet
  <2>2. <<>> \in [1 .. 0 -> {}] /\ IsInjective(<<>>)
    BY DEF IsInjective
  <2>3. \A f \in [1 .. 0 -> {}] : f = <<>>
    OBVIOUS
  <2>4. QED
    BY <2>1, <2>2, <2>3 DEF SetToSeq
<1>2. ASSUME NEW x PROVE SetToSeq({x}) = <<x>>
  <2>1. Cardinality({x}) = 1
    BY FS_Singleton
  <2>2. <<x>> \in [1 .. 1 -> {x}] /\ IsInjective(<<x>>)
    BY DEF IsInjective
  <2>3. \A f \in [1 .. 1 -> {x}] : f = <<x>>
    OBVIOUS
  <2>4. QED
    BY <2>1, <2>2, <2>3 DEF SetToSeq
<1>3. QED
  BY <1>1, <1>2

\* What a side writes: nothing, its handler's answer, or its message.
LEMMA WritesNothing ==
  ASSUME NEW calls, NEW frames, \A c \in calls : c.op \notin {"request", "notify", "answer"}
  PROVE  Written(calls, frames) = <<>>
<1>1. M!Answering \notin calls
  BY DEF M!Answering, M!Call
<1>2. {[kind |-> c.op, of |-> c.msg] : c \in {d \in calls : d.op \in {"request", "notify"}}} = {}
  OBVIOUS
<1>3. QED
  BY <1>1, <1>2, SmallSets, ConcatEmptySeq, EmptySeq DEF Written

LEMMA WritesAnswer ==
  ASSUME NEW frames
  PROVE  Written({M!Answering}, frames) = <<[kind |-> "answer", of |-> Handled(frames).of]>>
<1> DEFINE s == <<[kind |-> "answer", of |-> Handled(frames).of]>>
<1>1. {[kind |-> c.op, of |-> c.msg] :
         c \in {d \in {M!Answering} : d.op \in {"request", "notify"}}} = {}
  BY DEF M!Answering, M!Call
<1>2. Written({M!Answering}, frames) = s \o <<>>
  BY <1>1, SmallSets DEF Written
<1>3. s \in Seq({[kind |-> "answer", of |-> Handled(frames).of]})
  OBVIOUS
<1>4. QED
  BY <1>2, <1>3, ConcatEmptySeq

LEMMA WritesMessage ==
  ASSUME NEW op \in {"request", "notify"}, NEW m, NEW frames
  PROVE  Written({M!Call(op, m)}, frames) = <<[kind |-> op, of |-> m]>>
<1> DEFINE f == [kind |-> op, of |-> m]
<1>1. M!Answering \notin {M!Call(op, m)}
  BY DEF M!Answering, M!Call
<1>2. {[kind |-> c.op, of |-> c.msg] :
         c \in {d \in {M!Call(op, m)} : d.op \in {"request", "notify"}}} = {f}
  <2>1. M!Call(op, m).op = op /\ M!Call(op, m).msg = m
    BY DEF M!Call
  <2>2. {d \in {M!Call(op, m)} : d.op \in {"request", "notify"}} = {M!Call(op, m)}
    BY <2>1
  <2>3. QED
    BY <2>1, <2>2
<1>3. Written({M!Call(op, m)}, frames) = <<>> \o <<f>>
  BY <1>1, <1>2, SmallSets DEF Written
<1>4. <<f>> \in Seq({f})
  OBVIOUS
<1>5. QED
  BY <1>3, <1>4, ConcatEmptySeq

\* The side that answers: its queue is empty and it is in IDLE, so it does nothing else.
LEMMA AnswererTurn ==
  ASSUME NEW r, NEW s, Answers(r), r.back \in Seq(InFlight), r.out \in Seq(InFlight),
         NEW n \in 0 .. Len(r.back), Turn(r, s, n)
  PROVE  /\ Answers(s) /\ s.back = AfterFirst(r.back, n)
         /\ s.out = On(r.out, Reply(r.back, n))
<1> DEFINE frames == FirstOf(r.back, n)
<1>1. n \in Nat /\ frames \in Seq(Frame) /\ Len(frames) = n
      /\ \A i \in 1 .. n : i \in DOMAIN r.back /\ frames[i] = r.back[i].frame
  BY FirstOfFrames, LenProperties
<1>2. r.state = "IDLE" /\ r.queue = <<>> /\ r.incoming = <<>> /\ r.heard = <<>>
  BY DEF Answers
<1>3. Frames(r, n) = frames
  BY <1>1, <1>2, ConcatEmptySeq DEF Frames
<1> HIDE DEF frames
<1>4. r.queue \o <<>> = <<>>
  BY <1>2, ConcatEmptySeq, EmptySeq
<1>5. s.incoming = <<>> /\ s.state = "IDLE" /\ s.queue = <<>> /\ s.calls = Seen(r, n)
  BY <1>2, <1>4 DEF Turn, IdleTurn, WaitingTurn, RestTurn, DropTurn, WriteTurn
<1>6. s.heard = <<>>
  <2>1. \A c \in Seen(r, n) : c.op # "answered"
    BY DEF Seen, M!Answering, M!Call
  <2>2. QED
    BY <2>1, <1>2, <1>5 DEF Turn
<1>7. s.out = On(r.out, Written(Seen(r, n), frames))
  BY <1>3, <1>5 DEF Turn
<1>8. n > 0 => frames # <<>> /\ Handled(frames) = frames[n]
  <2>1. n > 0 => frames # <<>>
    BY <1>1, EmptySeq
  <2>2. QED
    BY <1>1, <2>1 DEF Handled, Last
<1>9. Run(r, n).answered <=> n > 0 /\ r.back[n].frame.kind = "request"
  <2>1. n = 0 => frames = <<>>
    BY <1>1, EmptySeq
  <2>2. n > 0 => frames[n] = r.back[n].frame
    BY <1>1
  <2>3. Run(r, n).answered <=> frames # <<>> /\ Handled(frames).kind = "request"
    BY <1>2, <1>3 DEF Run, HandlerRun
  <2>4. QED
    BY <2>1, <2>2, <2>3, <1>1, <1>8
<1>10. Written(Seen(r, n), frames) = Reply(r.back, n)
  <2>1. CASE Run(r, n).answered
    <3>1. Seen(r, n) = {M!Answering}
      BY <2>1 DEF Seen
    <3>2. n > 0 /\ Handled(frames).of = r.back[n].frame.of
      BY <2>1, <1>1, <1>8, <1>9
    <3>3. QED
      BY <2>1, <3>1, <3>2, <1>9, WritesAnswer DEF Reply
  <2>2. CASE ~Run(r, n).answered
    <3>1. Written(Seen(r, n), frames) = <<>>
      BY <2>2, WritesNothing DEF Seen
    <3>2. QED
      BY <2>2, <3>1, <1>9 DEF Reply
  <2>3. QED
    BY <2>1, <2>2
<1>11. QED
  BY <1>5, <1>6, <1>7, <1>10 DEF Answers, Turn

\* The same for the side that asks: its message handler finds answers only, so it
\* writes nothing, and no handler takes time.
Stays(v, w) == w.last = v.last /\ w.cool = v.cool /\ w.ans = v.ans
Popped(v, w) == v.queue # <<>> /\ w.queue = Tail(v.queue) /\ w.tried = 0
Kept(v, w) == w.queue = v.queue /\ w.tried = v.tried

Rests(v, w) ==
  /\ v.state = "IDLE" /\ w.state = "IDLE" /\ w.incoming = <<>> /\ Stays(v, w)
  /\ w.out = v.out /\ w.heard = v.heard
  /\ Kept(v, w) \/ Popped(v, w)
Message(item) ==
  [kind |-> IF item.no_answer THEN "notify" ELSE "request", of |-> item.msg]
Writes(v, w) ==
  LET item == Head(v.queue)
  IN  /\ v.state = "IDLE" /\ v.cool <= 0 /\ v.queue # <<>> /\ w.incoming = <<>>
      /\ w.last = item.msg /\ w.cool = v.cooldown /\ w.heard = v.heard
      /\ w.out = On(v.out, <<Message(item)>>)
      /\ IF item.no_answer
           THEN w.state = "IDLE" /\ w.ans = v.ans /\ Popped(v, w)
           ELSE /\ w.state = "WAITING_FOR_ANSWER" /\ w.ans = v.timeout
                /\ item.number_of_retries > 0
                /\ w.queue = M!UseTry(v.queue) /\ w.tried = v.tried + 1
GivesUp(v, w, n) ==
  /\ v.state = "WAITING_FOR_ANSWER" /\ v.ans < 0 /\ w.state = "IDLE" /\ Stays(v, w)
  /\ w.incoming = FirstOf(v.back, n) /\ w.out = v.out /\ w.heard = v.heard
  /\ Kept(v, w) \/ Popped(v, w)
IsAnswered(v, w, n) ==
  /\ v.state = "WAITING_FOR_ANSWER" /\ n > 0 /\ w.state = "IDLE" /\ Stays(v, w)
  /\ w.incoming = Tail(FirstOf(v.back, n)) /\ w.out = v.out
  /\ w.heard = <<v.last, Head(FirstOf(v.back, n))>>
  /\ Popped(v, w)
Waits(v, w, n) ==
  /\ v.state = "WAITING_FOR_ANSWER" /\ n = 0 /\ w.state = v.state /\ Stays(v, w)
  /\ w.incoming = v.incoming /\ w.out = v.out /\ w.heard = v.heard
  /\ Kept(v, w)

LEMMA AskerIsQuiet ==
  ASSUME NEW v, Asks(v), NEW n \in 0 .. Len(v.back)
  PROVE  /\ ~Run(v, n).answered /\ Seen(v, n) = {} /\ CoolThen(v, n) = v.cool
         /\ M!Left(v.cool, 0) = v.cool /\ M!Left(v.ans, 0) = v.ans
         /\ M!Left(v.timeout, 0) = v.timeout
<1> DEFINE arrived == FirstOf(v.back, n)
           frames == v.incoming \o arrived
<1>1. v.back \in Seq(InFlight) /\ v.incoming \in Seq(Frame)
  BY DEF Asks, Shaped
<1>2. /\ arrived \in Seq(Frame) /\ Len(arrived) = n /\ n \in Nat
      /\ \A i \in 1 .. n : i \in DOMAIN v.back /\ arrived[i] = v.back[i].frame
  BY <1>1, FirstOfFrames, LenProperties
<1> HIDE DEF arrived
<1>3. Len(v.incoming) \in Nat /\ DOMAIN v.incoming = 1 .. Len(v.incoming)
  BY <1>1, LenProperties
<1>4. /\ frames \in Seq(Frame) /\ Len(frames) = Len(v.incoming) + n
      /\ \A i \in 1 .. Len(v.incoming) + n :
           frames[i] = IF i <= Len(v.incoming) THEN v.incoming[i] ELSE arrived[i - Len(v.incoming)]
  <2>1. /\ frames \in Seq(Frame) /\ Len(frames) = Len(v.incoming) + Len(arrived)
        /\ \A i \in 1 .. Len(v.incoming) + Len(arrived) :
             frames[i] = IF i <= Len(v.incoming) THEN v.incoming[i]
                         ELSE arrived[i - Len(v.incoming)]
    BY <1>1, <1>2, ConcatProperties
  <2>2. QED
    BY <2>1, <1>2
<1> HIDE DEF frames
<1>5. ASSUME NEW i \in 1 .. Len(v.incoming) + n PROVE frames[i].kind = "answer"
  <2>1. CASE i <= Len(v.incoming)
    BY SMTT(30), <2>1, <1>3, <1>4 DEF Asks, OnlyAnswers
  <2>2. CASE ~(i <= Len(v.incoming))
    <3>1. i - Len(v.incoming) \in 1 .. n
      BY <2>2, <1>2, <1>3
    <3>2. frames[i] = arrived[i - Len(v.incoming)]
      BY <2>2, <1>4
    <3>3. i - Len(v.incoming) \in DOMAIN v.back
          /\ arrived[i - Len(v.incoming)] = v.back[i - Len(v.incoming)].frame
      BY <3>1, <1>2
    <3>4. QED
      BY <3>2, <3>3 DEF Asks, OnlyAnswers
  <2>3. QED
    BY <2>1, <2>2
<1>6. frames # <<>> => Handled(frames).kind = "answer"
  <2>1. frames # <<>> => Len(frames) \in 1 .. Len(frames)
    BY <1>4, EmptySeq
  <2>2. QED
    BY <2>1, <1>4, <1>5 DEF Handled, Last
<1>7. ~Run(v, n).answered
  BY <1>6 DEF Run, HandlerRun, Frames, frames, arrived
<1>8. QED
  BY <1>7 DEF Seen, CoolThen, M!Left, Asks, Shaped

\* A handler that is told, and a message that is dropped, put nothing on the line.
LEMMA ToldIsNotWritten ==
  ASSUME NEW l \in Seq(InFlight), NEW frames, NEW calls, NEW m,
         calls = {} \/ \E op \in {"drop", "expire", "answered"} : calls = {M!Call(op, m)}
  PROVE  On(l, Written(calls, frames)) = l
<1>1. \A c \in calls : c.op \notin {"request", "notify", "answer"}
  BY DEF M!Call
<1>2. QED
  BY <1>1, WritesNothing, OnNothing

LEMMA AskerTurn ==
  ASSUME NEW v, NEW w, NEW R, NEW N, Asks(v), Accounted(v, R, N),
         NEW n \in 0 .. Len(v.back), Turn(v, w, n)
  PROVE  \/ Rests(v, w) \/ Writes(v, w) \/ GivesUp(v, w, n) \/ IsAnswered(v, w, n)
         \/ Waits(v, w, n)
<1>1. v.queue \o <<>> = v.queue
  BY ConcatEmptySeq DEF Accounted
<1>2. v.out \in Seq(InFlight) /\ v.back \in Seq(InFlight)
  BY DEF Asks, Shaped
<1>3. v.state = "WAITING_FOR_ANSWER" =>
        /\ v.queue # <<>> /\ Tail(v.queue) \o <<>> = Tail(v.queue)
        /\ Frames(v, n) = FirstOf(v.back, n)
  <2>1. SUFFICES ASSUME v.state = "WAITING_FOR_ANSWER"
                 PROVE  /\ v.queue # <<>> /\ Tail(v.queue) \o <<>> = Tail(v.queue)
                        /\ Frames(v, n) = FirstOf(v.back, n)
    OBVIOUS
  <2>2. v.queue # <<>> /\ v.incoming = <<>>
    BY <2>1 DEF Accounted, Asks, OnlyAnswers
  <2>3. Tail(v.queue) \in Seq(Item(R, N))
    BY <2>2, HeadTailProperties DEF Accounted
  <2>4. FirstOf(v.back, n) \in Seq(Frame)
    BY <1>2, FirstOfFrames
  <2>5. Frames(v, n) = FirstOf(v.back, n)
    BY <2>2, <2>4, ConcatEmptySeq DEF Frames
  <2>6. QED
    BY <2>2, <2>3, <2>5, ConcatEmptySeq
<1>4. CASE v.state = "IDLE" /\ w.incoming = <<>> /\ RestTurn(v, w, n)
  <2>1. w.calls = {}
    BY <1>4, AskerIsQuiet DEF RestTurn
  <2>2. w.out = v.out /\ w.heard = v.heard
    BY <2>1, <1>2, ToldIsNotWritten DEF Turn
  <2>3. QED
    BY <1>1, <1>4, <2>2, AskerIsQuiet DEF RestTurn, Rests, Stays, Kept
<1>5. CASE v.state = "IDLE" /\ w.incoming = <<>> /\ DropTurn(v, w, n)
  <2>1. w.calls = {M!Call("drop", Head(v.queue).msg)}
    BY <1>1, <1>5, AskerIsQuiet DEF DropTurn
  <2>2. w.out = v.out
    BY <2>1, <1>2, ToldIsNotWritten DEF Turn
  <2>3. w.heard = v.heard
    BY <2>1 DEF Turn, M!Call
  <2>4. QED
    BY <1>1, <1>5, <2>2, <2>3, AskerIsQuiet DEF DropTurn, Rests, Stays, Popped
<1>6. CASE v.state = "IDLE" /\ w.incoming = <<>> /\ WriteTurn(v, w, n)
  <2> DEFINE item == Head(v.queue)
             op == IF item.no_answer THEN "notify" ELSE "request"
  <2>1. w.calls = {M!Call(op, item.msg)}
    BY <1>1, <1>6, AskerIsQuiet DEF WriteTurn
  <2>2. w.out = On(v.out, <<Message(item)>>)
    <3>1. op \in {"request", "notify"} /\ Message(item) = [kind |-> op, of |-> item.msg]
      BY DEF Message
    <3> HIDE DEF op, item
    <3>2. Written(w.calls, Frames(v, n)) = <<Message(item)>>
      BY <2>1, <3>1, WritesMessage
    <3>3. QED
      BY <3>2 DEF Turn
  <2>3. w.heard = v.heard
    BY <2>1 DEF Turn, M!Call
  <2>4. QED
    BY <1>1, <1>6, <2>2, <2>3, AskerIsQuiet DEF WriteTurn, Writes, Popped
<1>7. CASE v.state = "WAITING_FOR_ANSWER" /\ w.last = v.last /\ OverTurn(v, w, n)
  <2>1. w.out = v.out
    BY <1>7, <1>2, ToldIsNotWritten DEF Turn, OverTurn
  <2>2. w.heard = v.heard
    BY <1>7 DEF Turn, OverTurn, M!Call
  <2>3. QED
    BY <1>3, <1>7, <2>1, <2>2, AskerIsQuiet DEF OverTurn, GivesUp, Stays, Kept, Popped
<1>8. CASE v.state = "WAITING_FOR_ANSWER" /\ w.last = v.last /\ AnsweredTurn(v, w, n)
  <2>1. w.calls = {M!Call("answered", v.last)}
    BY <1>8 DEF AnsweredTurn
  <2>2. w.out = v.out
    BY <2>1, <1>2, ToldIsNotWritten DEF Turn
  <2>3. w.heard = <<v.last, Head(Frames(v, n))>>
    <3> DEFINE told == CHOOSE c \in w.calls : c.op = "answered"
    <3>1. told \in w.calls /\ \E c \in w.calls : c.op = "answered"
      BY <2>1 DEF M!Call
    <3>2. told.msg = v.last
      BY <3>1, <2>1 DEF M!Call
    <3>3. QED
      BY <3>1, <3>2 DEF Turn
  <2>4. n > 0
    <3>1. FirstOf(v.back, n) # <<>>
      BY <1>3, <1>8 DEF AnsweredTurn
    <3>2. QED
      BY <3>1, <1>2, FirstOfFrames
  <2>5. QED
    BY <1>3, <1>8, <2>2, <2>3, <2>4, AskerIsQuiet DEF AnsweredTurn, IsAnswered, Stays, Popped
<1>9. CASE v.state = "WAITING_FOR_ANSWER" /\ w.last = v.last /\ WaitTurn(v, w, n)
  <2>1. w.calls = {}
    BY <1>9 DEF WaitTurn
  <2>2. w.out = v.out /\ w.heard = v.heard
    BY <2>1, <1>2, ToldIsNotWritten DEF Turn
  <2>3. n = 0
    <3>1. Len(FirstOf(v.back, n)) = n
      BY <1>2, FirstOfFrames
    <3>2. QED
      BY <3>1, <1>9, EmptySeq DEF WaitTurn
  <2>4. QED
    BY <1>9, <2>2, <2>3 DEF WaitTurn, Waits, Stays, Kept
<1>10. QED
  BY <1>4, <1>5, <1>6, <1>7, <1>8, <1>9 DEF Turn, IdleTurn, WaitingTurn

\* The queue without its oldest message, of which no try was made then.
LEMMA PopKeepsAccounts ==
  ASSUME NEW v, NEW w, NEW R, NEW N, Accounted(v, R, N), Popped(v, w), w.state = "IDLE"
  PROVE  Accounted(w, R, N)
<1> DEFINE q == v.queue
           t == w.queue
<1>1. q \in Seq(Item(R, N)) /\ q # <<>> /\ t = Tail(q) /\ w.tried = 0
  BY DEF Accounted, Popped
<1>2. /\ t \in Seq(Item(R, N)) /\ Len(t) = Len(q) - 1 /\ \A i \in 1 .. Len(t) : t[i] = q[i + 1]
  BY <1>1, HeadTailProperties
<1>3. Len(q) \in Nat /\ DOMAIN q = 1 .. Len(q) /\ Len(t) \in Nat /\ DOMAIN t = 1 .. Len(t)
  BY <1>1, <1>2, LenProperties
<1>a. /\ \A i \in DOMAIN q : q[i].msg \in (IF q[i].no_answer THEN N ELSE R)
      /\ \A i \in DOMAIN q \ {1} : q[i].number_of_retries = q[i].granted
  BY DEF Accounted
<1> HIDE DEF q, t
<1>4. ASSUME NEW i \in DOMAIN t
      PROVE  /\ t[i].msg \in (IF t[i].no_answer THEN N ELSE R)
             /\ t[i].number_of_retries = t[i].granted /\ t[i].granted \in Nat
  <2>1. i + 1 \in DOMAIN q \ {1} /\ t[i] = q[i + 1]
    BY <1>2, <1>3
  <2>2. t[i] \in Item(R, N)
    BY <1>2, <1>3, ElementOfSeq
  <2>3. t[i].granted \in Nat
    BY <2>2 DEF Item
  <2>4. QED
    BY <2>1, <2>3, <1>a
<1>5. t # <<>> => 1 \in DOMAIN t
  BY <1>2, <1>3, EmptySeq
<1>6. t # <<>> => t[1].number_of_retries + 0 = t[1].granted
  BY <1>4, <1>5
<1>7. QED
  BY <1>1, <1>2, <1>4, <1>6 DEF Accounted, t

\* One try of the oldest message more is made, and one less is left.
LEMMA TryKeepsAccounts ==
  ASSUME NEW v, NEW w, NEW R, NEW N, Accounted(v, R, N), v.queue # <<>>,
         Head(v.queue).number_of_retries > 0, ~Head(v.queue).no_answer,
         w.queue = M!UseTry(v.queue), w.tried = v.tried + 1
  PROVE  Accounted(w, R, N)
<1> DEFINE q == v.queue
           t == w.queue
<1>1. q \in Seq(Item(R, N)) /\ q # <<>> /\ v.tried \in Nat
      /\ q[1].number_of_retries + v.tried = q[1].granted
  BY DEF Accounted
<1>2. Len(q) \in Nat /\ DOMAIN q = 1 .. Len(q) /\ 1 \in DOMAIN q /\ Head(q) = q[1]
  BY <1>1, EmptySeq, LenProperties
<1>a. /\ \A i \in DOMAIN q : q[i].msg \in (IF q[i].no_answer THEN N ELSE R)
      /\ \A i \in DOMAIN q \ {1} : q[i].number_of_retries = q[i].granted
  BY DEF Accounted
<1>b. q[1].number_of_retries > 0 /\ t = [q EXCEPT ![1].number_of_retries = @ - 1]
  BY <1>2 DEF M!UseTry
<1> HIDE DEF q, t
<1>3. \A i \in DOMAIN q : q[i] \in Item(R, N)
  BY <1>1, <1>2, ElementOfSeq
<1>4. /\ DOMAIN t = DOMAIN q /\ t[1] = [q[1] EXCEPT !.number_of_retries = @ - 1]
      /\ \A i \in DOMAIN q \ {1} : t[i] = q[i]
  BY <1>b, <1>2
<1>5. /\ t[1] \in Item(R, N) /\ t[1].msg = q[1].msg /\ t[1].no_answer = q[1].no_answer
      /\ t[1].number_of_retries = q[1].number_of_retries - 1 /\ t[1].granted = q[1].granted
      /\ q[1].number_of_retries \in Nat
  <2>1. q[1] \in Item(R, N)
    BY <1>2, <1>3
  <2>2. q[1].number_of_retries \in Nat /\ q[1].number_of_retries - 1 \in Nat
    BY <2>1, <1>b DEF Item
  <2>3. QED
    BY <2>1, <2>2, <1>4 DEF Item
<1>6. t \in [1 .. Len(q) -> Item(R, N)]
  <2>1. t = [i \in 1 .. Len(q) |-> t[i]]
    BY <1>b, <1>2
  <2>2. \A i \in 1 .. Len(q) : t[i] \in Item(R, N)
    BY <1>2, <1>3, <1>4, <1>5
  <2>3. QED
    BY <2>1, <2>2
<1>7. t \in Seq(Item(R, N)) /\ t # <<>>
  <2>1. t \in Seq(Item(R, N))
    BY <1>2, <1>6, SeqDef
  <2>2. QED
    BY <2>1, <1>2, <1>4
<1>8. t[1].number_of_retries + (v.tried + 1) = t[1].granted
  BY SMTT(30), <1>1, <1>5
<1>9. /\ \A i \in DOMAIN t : t[i].msg \in (IF t[i].no_answer THEN N ELSE R)
      /\ \A i \in DOMAIN t \ {1} : t[i].number_of_retries = t[i].granted
  BY <1>a, <1>2, <1>4, <1>5
<1>10. QED
  BY <1>1, <1>7, <1>8, <1>9 DEF Accounted, t

\* A message is queued with all its tries.
LEMMA SendKeepsAccounts ==
  ASSUME NEW v, NEW w, NEW R, NEW N, Accounted(v, R, N), NEW item \in Item(R, N),
         item.msg \in (IF item.no_answer THEN N ELSE R),
         item.number_of_retries = item.granted,
         w.state = v.state, w.tried = v.tried, w.queue = Append(v.queue, item)
  PROVE  Accounted(w, R, N)
<1> DEFINE q == v.queue
           t == w.queue
<1>1. q \in Seq(Item(R, N)) /\ v.tried \in Nat
  BY DEF Accounted
<1>2. /\ t \in Seq(Item(R, N)) /\ t # <<>> /\ Len(t) = Len(q) + 1
      /\ \A i \in 1 .. Len(q) : t[i] = q[i]
      /\ t[Len(q) + 1] = item
  BY <1>1, AppendProperties
<1>3. Len(q) \in Nat /\ DOMAIN q = 1 .. Len(q) /\ DOMAIN t = 1 .. Len(q) + 1
  BY <1>1, <1>2, LenProperties
<1>a. /\ \A i \in DOMAIN q : q[i].msg \in (IF q[i].no_answer THEN N ELSE R)
      /\ \A i \in DOMAIN q \ {1} : q[i].number_of_retries = q[i].granted
      /\ IF q = <<>> THEN v.tried = 0 ELSE q[1].number_of_retries + v.tried = q[1].granted
  BY DEF Accounted
<1>b. q = <<>> <=> Len(q) = 0
  BY <1>1, EmptySeq
<1>c. item.number_of_retries \in Nat
  BY DEF Item
<1> HIDE DEF q, t
<1>4. ASSUME NEW i \in DOMAIN t PROVE i \in DOMAIN q \/ i = Len(q) + 1
  BY <1>3
<1>5. \A i \in DOMAIN t : t[i].msg \in (IF t[i].no_answer THEN N ELSE R)
  BY <1>a, <1>2, <1>3, <1>4
<1>6. \A i \in DOMAIN t \ {1} : t[i].number_of_retries = t[i].granted
  BY <1>a, <1>2, <1>3, <1>4
<1>7. t[1].number_of_retries + v.tried = t[1].granted
  <2>1. CASE q = <<>>
    <3>1. t[1] = item /\ v.tried = 0
      BY <2>1, <1>a, <1>b, <1>2
    <3>2. QED
      BY <3>1, <1>c
  <2>2. CASE q # <<>>
    <3>1. t[1] = q[1]
      BY <2>2, <1>b, <1>2, <1>3
    <3>2. QED
      BY <2>2, <3>1, <1>a
  <2>3. QED
    BY <2>1, <2>2
<1>8. QED
  BY <1>1, <1>2, <1>5, <1>6, <1>7 DEF Accounted, t

\* A call of loop() of the side that asks keeps its accounts.
LEMMA TurnKeepsAccounts ==
  ASSUME NEW v, NEW w, NEW R, NEW N, Asks(v), Accounted(v, R, N),
         NEW n \in 0 .. Len(v.back), Turn(v, w, n)
  PROVE  Accounted(w, R, N)
<1>1. CASE Kept(v, w) /\ (w.state = v.state \/ w.state = "IDLE")
  BY <1>1 DEF Kept, Accounted
<1>2. CASE Popped(v, w) /\ w.state = "IDLE"
  BY <1>2, PopKeepsAccounts
<1>3. CASE Writes(v, w) /\ ~Head(v.queue).no_answer
  BY <1>3, TryKeepsAccounts DEF Writes
<1>4. QED
  BY <1>1, <1>2, <1>3, AskerTurn DEF Rests, Writes, GivesUp, IsAnswered, Waits

\* The oldest message makes a frame.
Sayable(R, N) == R \subseteq ModuleRequest \cup DeviceRequest /\ N \subseteq ModuleNotice

LEMMA OldestIsFrame ==
  ASSUME NEW v, NEW R, NEW N, Accounted(v, R, N), Sayable(R, N), v.queue # <<>>
  PROVE  Message(Head(v.queue)) \in Frame
<1>1. v.queue \in Seq(Item(R, N))
  BY DEF Accounted
<1>2. 1 \in DOMAIN v.queue /\ Head(v.queue) = v.queue[1]
  BY <1>1, EmptySeq, LenProperties
<1>3. v.queue[1].msg \in (IF v.queue[1].no_answer THEN N ELSE R)
  BY <1>2 DEF Accounted
<1>4. QED
  BY <1>2, <1>3 DEF Message, Frame, Sayable

\* It keeps what is known of the answers.
LEMMA TurnKeepsAsks ==
  ASSUME NEW v, NEW w, NEW R, NEW N, Asks(v), Accounted(v, R, N),
         Sayable(R, N),
         NEW n \in 0 .. Len(v.back), Turn(v, w, n)
  PROVE  Asks(w)
<1>1. v.out \in Seq(InFlight) /\ v.back \in Seq(InFlight)
  BY DEF Asks, Shaped
<1>2. /\ w.timeout = v.timeout /\ w.cooldown = v.cooldown
      /\ w.back = AfterFirst(v.back, n) /\ Part(w.back, v.back) /\ Part(v.out, v.out)
  BY <1>1, AfterFirstIsPart, SameIsPart DEF Turn
<1>3. CASE Rests(v, w)
  BY <1>2, <1>3, FewerKeeps DEF Rests, Stays, SameSide
<1>4. CASE Writes(v, w)
  <2> DEFINE u == [state |-> v.state, incoming |-> <<>>, last |-> v.last, timeout |-> v.timeout,
                   cooldown |-> v.cooldown, cool |-> v.cool, ans |-> v.ans,
                   out |-> v.out, back |-> w.back, heard |-> v.heard]
             item == Head(v.queue)
             f == Message(item)
  <2>1. Asks(u)
    <3>1. SameSide(v, u) /\ u.out = v.out /\ u.back = w.back /\ u.incoming = <<>>
      BY DEF SameSide
    <3> HIDE DEF u
    <3>2. QED
      BY <3>1, <1>2, FewerKeeps
  <2>2. f \in Frame /\ f.of = item.msg
        /\ f.kind = (IF item.no_answer THEN "notify" ELSE "request")
    BY <1>4, OldestIsFrame DEF Message, Writes
  <2>3. /\ f.kind \in {"request", "notify"}
        /\ w.state = (IF f.kind = "request" THEN "WAITING_FOR_ANSWER" ELSE "IDLE")
        /\ w.ans = (IF f.kind = "request" THEN u.timeout ELSE u.ans)
        /\ w.last = f.of /\ w.out = On(u.out, <<f>>)
    BY <2>2, <1>4 DEF Writes
  <2>4. /\ u.state = "IDLE" /\ u.cool <= 0 /\ w.cool = u.cooldown /\ w.timeout = u.timeout
        /\ w.cooldown = u.cooldown /\ w.heard = u.heard /\ w.incoming = <<>> /\ w.back = u.back
    BY <1>2, <1>4 DEF Writes
  <2> HIDE DEF f, u
  <2>5. QED
    BY <2>1, <2>2, <2>3, <2>4, WriteKeeps
<1>5. CASE GivesUp(v, w, n)
  BY <1>2, <1>5, GiveUpKeeps DEF GivesUp, Stays
<1>6. CASE IsAnswered(v, w, n)
  <2>1. n \in 1 .. Len(v.back)
    BY <1>1, <1>6, LenProperties DEF IsAnswered
  <2>2. QED
    BY <2>1, <1>2, <1>6, AnswerKeeps DEF IsAnswered, Stays
<1>7. CASE Waits(v, w, n)
  BY <1>2, <1>7, FewerKeeps DEF Waits, Stays, SameSide
<1>8. QED
  BY <1>3, <1>4, <1>5, <1>6, <1>7, AskerTurn

\* It keeps the tries within the losses, which are counted anew for the next message.
LEMMA TurnKeepsTries ==
  ASSUME NEW v, NEW w, NEW R, NEW N, Asks(v), Accounted(v, R, N), Sayable(R, N),
         NEW lost \in Nat, TriesLost(v, lost),
         NEW n \in 0 .. Len(v.back), Turn(v, w, n)
  PROVE  TriesLost(w, IF w.tried = 0 THEN 0 ELSE lost)
<1>1. v.out \in Seq(InFlight) /\ v.back \in Seq(InFlight) /\ w.timeout = v.timeout
  BY DEF Asks, Shaped, Turn
<1>2. v.tried \in Nat /\ w.tried \in Nat
  <2>1. Accounted(w, R, N)
    BY TurnKeepsAccounts
  <2>2. QED
    BY <2>1 DEF Accounted
<1>3. SUFFICES ASSUME 2 * Delay <= v.timeout, w.tried # 0
               PROVE  \/ w.tried <= lost
                      \/ w.state = "WAITING_FOR_ANSWER" /\ w.tried <= lost + 1 /\ UnderWay(w)
  BY <1>1, <1>2 DEF TriesLost
<1>4. v.state = "IDLE" \/ v.ans < 0 => v.tried <= lost
  BY <1>3, NothingLate DEF TriesLost
<1>5. CASE Rests(v, w) \/ GivesUp(v, w, n)
  BY <1>3, <1>4, <1>5 DEF Rests, GivesUp, Kept, Popped
<1>6. CASE Writes(v, w)
  <2> DEFINE f == Message(Head(v.queue))
  <2>1. /\ w.state = "WAITING_FOR_ANSWER" /\ w.tried = v.tried + 1 /\ v.tried <= lost
        /\ f.kind = "request" /\ w.out = On(v.out, <<f>>)
    BY <1>3, <1>4, <1>6 DEF Writes, Popped, Message
  <2>2. Len(v.out) + 1 \in DOMAIN w.out /\ w.out[Len(v.out) + 1].frame = f
    <3>1. f \in Frame
      BY <1>6, OldestIsFrame DEF Writes
    <3>2. /\ w.out \in Seq(InFlight) /\ Len(w.out) = Len(v.out) + 1
          /\ w.out[Len(v.out) + 1] = [frame |-> f, age |-> 0]
      BY SMTT(30), <1>1, <2>1, <3>1, OnLine
    <3>3. Len(v.out) \in Nat /\ DOMAIN w.out = 1 .. Len(v.out) + 1
      BY <1>1, <3>2, LenProperties
    <3>4. QED
      BY <3>2, <3>3
  <2>3. QED
    BY <2>1, <2>2, <1>2 DEF UnderWay
<1>7. CASE IsAnswered(v, w, n)
  BY <1>3, <1>7 DEF IsAnswered, Popped
<1>8. CASE Waits(v, w, n)
  <2>1. w.back = v.back /\ w.out = v.out /\ w.state = v.state /\ w.tried = v.tried
    BY <1>1, <1>8, AfterFirstIsPart DEF Waits, Kept, Turn
  <2>2. QED
    BY <2>1, <1>3 DEF TriesLost, UnderWay
<1>9. QED
  BY <1>5, <1>6, <1>7, <1>8, AskerTurn

-----------------------------------------------------------------------------
(* The steps of the link, told of the views                                *)

\* A call of the module's loop() is a turn of its view.
LEMMA ModuleTurn ==
  ASSUME ModuleLoop, heard = [s \in {"module", "device"} |-> heard[s]]
  PROVE  \E n \in 0 .. Len(MView.back) : Turn(MView, MView', n)
<1>1. PICK n \in 0 .. Len(to_module) :
        LET arrived == FirstOf(to_module, n)
            frames == m_incoming \o arrived
        IN  /\ M!Iteration(arrived, HandlerRun(m_state, frames))
            /\ to_module' = AfterFirst(to_module, n)
            /\ to_device' = On(to_device, Written(m_calls', frames))
            /\ Heard("module", m_calls', frames)
  BY DEF ModuleLoop
<1> DEFINE arrived == FirstOf(to_module, n)
           frames == m_incoming \o arrived
           run == HandlerRun(m_state, frames)
<1>2. /\ MView.state = m_state /\ MView.queue = m_queue /\ MView.incoming = m_incoming
      /\ MView.last = m_last /\ MView.timeout = m_timeout /\ MView.cooldown = m_cooldown
      /\ MView.cool = m_cooldown_left /\ MView.ans = m_answer_left /\ MView.tried = m_tried
      /\ MView.calls = m_calls /\ MView.out = to_device /\ MView.back = to_module
      /\ MView.heard = heard["module"]
  BY DEF MView
<1>3. /\ MView'.state = m_state' /\ MView'.queue = m_queue' /\ MView'.incoming = m_incoming'
      /\ MView'.last = m_last' /\ MView'.timeout = m_timeout' /\ MView'.cooldown = m_cooldown'
      /\ MView'.cool = m_cooldown_left' /\ MView'.ans = m_answer_left' /\ MView'.tried = m_tried'
      /\ MView'.calls = m_calls' /\ MView'.out = to_device' /\ MView'.back = to_module'
      /\ MView'.heard = heard'["module"]
  BY DEF MView
<1>4. Frames(MView, n) = frames /\ Run(MView, n) = run /\ FirstOf(MView.back, n) = arrived
  BY <1>2 DEF Frames, Run
<1>5. run.pushed = <<>> /\ run.took = 0
  BY DEF HandlerRun
<1>6. /\ MView'.back = AfterFirst(MView.back, n)
      /\ MView'.out = On(MView.out, Written(MView'.calls, Frames(MView, n)))
  BY <1>1, <1>2, <1>3, <1>4
<1>7. MView'.heard = IF \E c \in MView'.calls : c.op = "answered"
                       THEN <<(CHOOSE c \in MView'.calls : c.op = "answered").msg,
                              Head(Frames(MView, n))>>
                       ELSE MView.heard
  <2> DEFINE told == <<(CHOOSE c \in m_calls' : c.op = "answered").msg, Head(frames)>>
  <2>1. IF \E c \in m_calls' : c.op = "answered"
          THEN heard' = [heard EXCEPT !["module"] = told] ELSE heard' = heard
    BY <1>1 DEF Heard
  <2> HIDE DEF told
  <2>2. heard'["module"] = IF \E c \in m_calls' : c.op = "answered" THEN told ELSE heard["module"]
    BY <2>1
  <2>3. QED
    BY <2>2, <1>2, <1>3, <1>4 DEF told
<1>8. M!Iteration(arrived, run)
  BY <1>1
<1> HIDE DEF arrived, frames, run
<1>9. M!CooldownAfter(run) = CoolThen(MView, n) /\ M!SeenCalls(run) = Seen(MView, n)
  BY <1>2, <1>4 DEF M!CooldownAfter, CoolThen, M!SeenCalls, Seen, M!Answering, M!Call
<1> DEFINE q == m_queue \o <<>>
           cool == M!CooldownAfter(run)
<1>10. ASSUME M!IdleIteration(arrived, run)
       PROVE  /\ IdleTurn(MView, MView', n)
              /\ MView'.timeout = MView.timeout /\ MView'.cooldown = MView.cooldown
  <2>1. /\ m_state = "IDLE" /\ m_incoming' = <<>>
        /\ m_timeout' = m_timeout /\ m_cooldown' = m_cooldown
        /\ \/ M!Rest(q, cool, run)
           \/ \E e \in 0 .. 0 : M!Transmit(q, cool, run, e)
           \/ \E e \in 0 .. 0 : M!Refuse(q, cool, run, e)
           \/ M!Discard(q, cool, run)
    BY <1>5, <1>10 DEF M!IdleIteration, M!settings
  <2> HIDE DEF q, cool
  <2>2. ASSUME M!Rest(q, cool, run) PROVE RestTurn(MView, MView', n)
    BY <2>2, <1>2, <1>3, <1>5, <1>9 DEF M!Rest, RestTurn, q, cool
  <2>3. ASSUME NEW e \in 0 .. 0, M!Transmit(q, cool, run, e) PROVE WriteTurn(MView, MView', n)
    <3>1. run.took + e = 0 /\ cool = CoolThen(MView, n) /\ q = MView.queue \o <<>>
      BY <1>2, <1>5, <1>9 DEF q, cool
    <3>2. q # <<>> /\ cool <= 0
      BY <2>3 DEF M!Transmit, M!Ready
    <3>3. QED
      BY <2>3, <3>1, <3>2, <1>2, <1>3, <1>9 DEF M!Transmit, WriteTurn
  <2>4. ASSUME NEW e \in 0 .. 0, M!Refuse(q, cool, run, e) PROVE FALSE
    BY <2>4 DEF M!Refuse
  <2>5. ASSUME M!Discard(q, cool, run) PROVE DropTurn(MView, MView', n)
    BY <2>5, <1>2, <1>3, <1>5, <1>9 DEF M!Discard, M!Ready, DropTurn, q, cool
  <2>6. QED
    BY <2>1, <2>2, <2>3, <2>4, <2>5, <1>2, <1>3 DEF IdleTurn
<1>11. ASSUME M!ExpireIteration(arrived, run)
       PROVE  /\ WaitingTurn(MView, MView', n)
              /\ MView'.timeout = MView.timeout /\ MView'.cooldown = MView.cooldown
  BY <1>11, <1>2, <1>3, <1>4, <1>5
     DEF M!ExpireIteration, M!Finish, M!settings, WaitingTurn, OverTurn, frames
<1>12. ASSUME M!LoopRetry(arrived)
       PROVE  /\ WaitingTurn(MView, MView', n)
              /\ MView'.timeout = MView.timeout /\ MView'.cooldown = MView.cooldown
  BY <1>12, <1>2, <1>3, <1>4
     DEF M!LoopRetry, M!settings, M!timers, M!history, WaitingTurn, OverTurn, frames
<1>13. ASSUME M!AnswerIteration(arrived, run)
       PROVE  /\ WaitingTurn(MView, MView', n)
              /\ MView'.timeout = MView.timeout /\ MView'.cooldown = MView.cooldown
  BY <1>13, <1>2, <1>3, <1>4, <1>5
     DEF M!AnswerIteration, M!Finish, M!settings, WaitingTurn, AnsweredTurn, frames
<1>14. ASSUME arrived = <<>>, M!LoopWait
       PROVE  /\ WaitingTurn(MView, MView', n)
              /\ MView'.timeout = MView.timeout /\ MView'.cooldown = MView.cooldown
  BY <1>14, <1>2, <1>3, <1>4
     DEF M!LoopWait, M!settings, M!timers, M!history, WaitingTurn, WaitTurn
<1>15. Turn(MView, MView', n)
  BY <1>6, <1>7, <1>8, <1>10, <1>11, <1>12, <1>13, <1>14 DEF M!Iteration, Turn
<1>16. QED
  BY <1>2, <1>15

\* A call of the device's loop() is a turn of its view.
LEMMA DeviceTurn ==
  ASSUME DeviceLoop, heard = [s \in {"module", "device"} |-> heard[s]]
  PROVE  \E n \in 0 .. Len(DView.back) : Turn(DView, DView', n)
<1>1. PICK n \in 0 .. Len(to_device) :
        LET arrived == FirstOf(to_device, n)
            frames == d_incoming \o arrived
        IN  /\ D!Iteration(arrived, HandlerRun(d_state, frames))
            /\ to_device' = AfterFirst(to_device, n)
            /\ to_module' = On(to_module, Written(d_calls', frames))
            /\ Heard("device", d_calls', frames)
  BY DEF DeviceLoop
<1> DEFINE arrived == FirstOf(to_device, n)
           frames == d_incoming \o arrived
           run == HandlerRun(d_state, frames)
<1>2. /\ DView.state = d_state /\ DView.queue = d_queue /\ DView.incoming = d_incoming
      /\ DView.last = d_last /\ DView.timeout = d_timeout /\ DView.cooldown = d_cooldown
      /\ DView.cool = d_cooldown_left /\ DView.ans = d_answer_left /\ DView.tried = d_tried
      /\ DView.calls = d_calls /\ DView.out = to_module /\ DView.back = to_device
      /\ DView.heard = heard["device"]
  BY DEF DView
<1>3. /\ DView'.state = d_state' /\ DView'.queue = d_queue' /\ DView'.incoming = d_incoming'
      /\ DView'.last = d_last' /\ DView'.timeout = d_timeout' /\ DView'.cooldown = d_cooldown'
      /\ DView'.cool = d_cooldown_left' /\ DView'.ans = d_answer_left' /\ DView'.tried = d_tried'
      /\ DView'.calls = d_calls' /\ DView'.out = to_module' /\ DView'.back = to_device'
      /\ DView'.heard = heard'["device"]
  BY DEF DView
<1>4. Frames(DView, n) = frames /\ Run(DView, n) = run /\ FirstOf(DView.back, n) = arrived
  BY <1>2 DEF Frames, Run
<1>5. run.pushed = <<>> /\ run.took = 0
  BY DEF HandlerRun
<1>6. /\ DView'.back = AfterFirst(DView.back, n)
      /\ DView'.out = On(DView.out, Written(DView'.calls, Frames(DView, n)))
  BY <1>1, <1>2, <1>3, <1>4
<1>7. DView'.heard = IF \E c \in DView'.calls : c.op = "answered"
                       THEN <<(CHOOSE c \in DView'.calls : c.op = "answered").msg,
                              Head(Frames(DView, n))>>
                       ELSE DView.heard
  <2> DEFINE told == <<(CHOOSE c \in d_calls' : c.op = "answered").msg, Head(frames)>>
  <2>1. IF \E c \in d_calls' : c.op = "answered"
          THEN heard' = [heard EXCEPT !["device"] = told] ELSE heard' = heard
    BY <1>1 DEF Heard
  <2> HIDE DEF told
  <2>2. heard'["device"] = IF \E c \in d_calls' : c.op = "answered" THEN told ELSE heard["device"]
    BY <2>1
  <2>3. QED
    BY <2>2, <1>2, <1>3, <1>4 DEF told
<1>8. D!Iteration(arrived, run)
  BY <1>1
<1> HIDE DEF arrived, frames, run
<1>9. D!CooldownAfter(run) = CoolThen(DView, n) /\ D!SeenCalls(run) = Seen(DView, n)
  BY <1>2, <1>4 DEF D!CooldownAfter, CoolThen, D!SeenCalls, Seen, D!Answering, D!Call,
     M!Answering, M!Call
<1> DEFINE q == d_queue \o <<>>
           cool == D!CooldownAfter(run)
<1>10. ASSUME D!IdleIteration(arrived, run)
       PROVE  /\ IdleTurn(DView, DView', n)
              /\ DView'.timeout = DView.timeout /\ DView'.cooldown = DView.cooldown
  <2>1. /\ d_state = "IDLE" /\ d_incoming' = <<>>
        /\ d_timeout' = d_timeout /\ d_cooldown' = d_cooldown
        /\ \/ D!Rest(q, cool, run)
           \/ \E e \in 0 .. 0 : D!Transmit(q, cool, run, e)
           \/ \E e \in 0 .. 0 : D!Refuse(q, cool, run, e)
           \/ D!Discard(q, cool, run)
    BY <1>5, <1>10 DEF D!IdleIteration, D!settings
  <2> HIDE DEF q, cool
  <2>2. ASSUME D!Rest(q, cool, run) PROVE RestTurn(DView, DView', n)
    BY <2>2, <1>2, <1>3, <1>5, <1>9 DEF D!Rest, RestTurn, q, cool, D!Left, M!Left
  <2>3. ASSUME NEW e \in 0 .. 0, D!Transmit(q, cool, run, e) PROVE WriteTurn(DView, DView', n)
    <3>1. run.took + e = 0 /\ cool = CoolThen(DView, n) /\ q = DView.queue \o <<>>
      BY <1>2, <1>5, <1>9 DEF q, cool
    <3>2. q # <<>> /\ cool <= 0
      BY <2>3 DEF D!Transmit, D!Ready
    <3>3. QED
      BY <2>3, <3>1, <3>2, <1>2, <1>3, <1>9 DEF D!Transmit, WriteTurn, D!Left, M!Left, D!Call, M!Call,
         D!UseTry, M!UseTry
  <2>4. ASSUME NEW e \in 0 .. 0, D!Refuse(q, cool, run, e) PROVE FALSE
    BY <2>4 DEF D!Refuse
  <2>5. ASSUME D!Discard(q, cool, run) PROVE DropTurn(DView, DView', n)
    BY <2>5, <1>2, <1>3, <1>5, <1>9 DEF D!Discard, D!Ready, DropTurn, q, cool,
       D!Left, M!Left, D!Call, M!Call
  <2>6. QED
    BY <2>1, <2>2, <2>3, <2>4, <2>5, <1>2, <1>3 DEF IdleTurn
<1>11. ASSUME D!ExpireIteration(arrived, run)
       PROVE  /\ WaitingTurn(DView, DView', n)
              /\ DView'.timeout = DView.timeout /\ DView'.cooldown = DView.cooldown
  BY <1>11, <1>2, <1>3, <1>4, <1>5
     DEF D!ExpireIteration, D!Finish, D!settings, WaitingTurn, OverTurn, frames,
         D!Left, M!Left, D!Call, M!Call
<1>12. ASSUME D!LoopRetry(arrived)
       PROVE  /\ WaitingTurn(DView, DView', n)
              /\ DView'.timeout = DView.timeout /\ DView'.cooldown = DView.cooldown
  BY <1>12, <1>2, <1>3, <1>4
     DEF D!LoopRetry, D!settings, D!timers, D!history, WaitingTurn, OverTurn, frames
<1>13. ASSUME D!AnswerIteration(arrived, run)
       PROVE  /\ WaitingTurn(DView, DView', n)
              /\ DView'.timeout = DView.timeout /\ DView'.cooldown = DView.cooldown
  BY <1>13, <1>2, <1>3, <1>4, <1>5
     DEF D!AnswerIteration, D!Finish, D!settings, WaitingTurn, AnsweredTurn, frames,
         D!Left, M!Left, D!Call, M!Call
<1>14. ASSUME arrived = <<>>, D!LoopWait
       PROVE  /\ WaitingTurn(DView, DView', n)
              /\ DView'.timeout = DView.timeout /\ DView'.cooldown = DView.cooldown
  BY <1>14, <1>2, <1>3, <1>4
     DEF D!LoopWait, D!settings, D!timers, D!history, WaitingTurn, WaitTurn
<1>15. Turn(DView, DView', n)
  BY <1>6, <1>7, <1>8, <1>10, <1>11, <1>12, <1>13, <1>14 DEF D!Iteration, Turn
<1>16. QED
  BY <1>2, <1>15

-----------------------------------------------------------------------------
(* The invariant and what follows from it                                  *)

LEMMA SaidBySides == Sayable(ModuleRequest, ModuleNotice) /\ Sayable(DeviceRequest, {})
  BY DEF Sayable

LEMMA InitLinkInv == Init => LinkInv
<1>1. SUFFICES ASSUME Init PROVE LinkInv
  OBVIOUS
<1>2. /\ m_state = "IDLE" /\ m_queue = <<>> /\ m_incoming = <<>> /\ m_timeout \in Nat
      /\ m_cooldown \in Nat /\ m_cooldown_left = -1 /\ m_answer_left = -1 /\ m_tried = 0
  BY <1>1, LinkAssumption DEF Init, M!Init
<1>3. /\ d_state = "IDLE" /\ d_queue = <<>> /\ d_incoming = <<>> /\ d_timeout \in Nat
      /\ d_cooldown \in Nat /\ d_cooldown_left = -1 /\ d_answer_left = -1 /\ d_tried = 0
  BY <1>1, LinkAssumption DEF Init, D!Init
<1>4. to_module = <<>> /\ to_device = <<>> /\ heard["module"] = <<>> /\ heard["device"] = <<>>
  BY <1>1 DEF Init
<1>5. \A T : <<>> \in Seq(T) /\ DOMAIN <<>> = {}
  OBVIOUS
<1>6. Asks(MView) /\ Answers(MView)
  BY <1>2, <1>4, <1>5
     DEF MView, Asks, Shaped, OnlyAnswers, CoolTrip, PromptTrip, HeardRight, Answers
<1>7. Asks(DView) /\ Answers(DView)
  BY <1>3, <1>4, <1>5
     DEF DView, Asks, Shaped, OnlyAnswers, CoolTrip, PromptTrip, HeardRight, Answers
<1>8. Accounted(MView, ModuleRequest, ModuleNotice) /\ Accounted(DView, DeviceRequest, {})
  BY <1>2, <1>3, <1>5 DEF MView, DView, Accounted
<1>9. TriesLost(MView, losses) /\ LinkTypes
  BY <1>1, <1>2, LinkAssumption DEF Init, MView, TriesLost, LinkTypes
<1>10. QED
  BY <1>6, <1>7, <1>8, <1>9 DEF LinkInv, ModuleAsks, DeviceAsks

\* loop() of the module, when it asks and when it answers.
LEMMA ModuleLoopKeeps ==
  ASSUME LinkTypes, ModuleLoop
  PROVE  LinkTypes' /\ (ModuleAsks => ModuleAsks') /\ (DeviceAsks => DeviceAsks')
<1>1. PICK n \in 0 .. Len(MView.back) : Turn(MView, MView', n)
  BY ModuleTurn DEF LinkTypes
<1>2. /\ losses' = (IF m_tried' = 0 THEN 0 ELSE losses) /\ UNCHANGED <<device, speakers>>
  BY DEF ModuleLoop
<1>3. heard' = [s \in {"module", "device"} |-> heard'[s]] /\ heard'["device"] = heard["device"]
  BY DEF ModuleLoop, Heard, LinkTypes
<1>4. m_timeout' = m_timeout /\ m_cooldown' = m_cooldown
  BY <1>1 DEF Turn, MView
<1>5. LinkTypes'
  BY <1>2, <1>3, <1>4 DEF LinkTypes, device
<1>6. ASSUME ModuleAsks PROVE ModuleAsks'
  <2>1. Asks(MView') /\ Accounted(MView', ModuleRequest, ModuleNotice)
    BY <1>1, <1>6, SaidBySides, TurnKeepsAsks, TurnKeepsAccounts DEF ModuleAsks
  <2>2. losses \in Nat
    BY DEF LinkTypes
  <2>3. TriesLost(MView', IF MView'.tried = 0 THEN 0 ELSE losses)
    BY <1>1, <1>6, <2>2, SaidBySides, TurnKeepsTries DEF ModuleAsks
  <2>4. losses' = IF MView'.tried = 0 THEN 0 ELSE losses
    BY <1>2 DEF MView
  <2>5. Answers(DView')
    BY <1>2, <1>3, <1>6 DEF ModuleAsks, Answers, DView, device
  <2>6. QED
    BY <2>1, <2>3, <2>4, <2>5 DEF ModuleAsks
<1>7. ASSUME DeviceAsks PROVE DeviceAsks'
  <2>1. MView.back = DView.out /\ MView.out = DView.back
        /\ MView'.back = DView'.out /\ MView'.out = DView'.back
    BY DEF MView, DView
  <2>2. DView.out \in Seq(InFlight) /\ DView.back \in Seq(InFlight)
    BY <1>7 DEF DeviceAsks, Asks, Shaped
  <2>3. /\ Answers(MView') /\ MView'.back = AfterFirst(MView.back, n)
        /\ MView'.out = On(MView.out, Reply(MView.back, n))
    BY <1>1, <1>7, <2>1, <2>2, AnswererTurn DEF DeviceAsks
  <2>4. SameSide(DView, DView') /\ DView'.incoming = DView.incoming
        /\ DView'.queue = DView.queue /\ DView'.tried = DView.tried
    BY <1>2, <1>3 DEF SameSide, DView, device
  <2>5. Asks(DView')
    BY <1>7, <2>1, <2>3, <2>4, ReplyKeeps DEF DeviceAsks
  <2>6. Accounted(DView', DeviceRequest, {})
    BY <1>7, <2>4 DEF DeviceAsks, Accounted, SameSide
  <2>7. QED
    BY <2>3, <2>5, <2>6 DEF DeviceAsks
<1>8. QED
  BY <1>5, <1>6, <1>7

\* loop() of the device.
LEMMA DeviceLoopKeeps ==
  ASSUME LinkTypes, DeviceLoop
  PROVE  LinkTypes' /\ (ModuleAsks => ModuleAsks') /\ (DeviceAsks => DeviceAsks')
<1>1. PICK n \in 0 .. Len(DView.back) : Turn(DView, DView', n)
  BY DeviceTurn DEF LinkTypes
<1>2. UNCHANGED <<module, losses, speakers>>
  BY DEF DeviceLoop
<1>3. heard' = [s \in {"module", "device"} |-> heard'[s]] /\ heard'["module"] = heard["module"]
  BY DEF DeviceLoop, Heard, LinkTypes
<1>4. d_timeout' = d_timeout /\ d_cooldown' = d_cooldown
  BY <1>1 DEF Turn, DView
<1>5. LinkTypes'
  BY <1>2, <1>3, <1>4 DEF LinkTypes, module
<1>6. ASSUME DeviceAsks PROVE DeviceAsks'
  <2>1. Asks(DView') /\ Accounted(DView', DeviceRequest, {})
    BY <1>1, <1>6, SaidBySides, TurnKeepsAsks, TurnKeepsAccounts DEF DeviceAsks
  <2>2. Answers(MView')
    BY <1>2, <1>3, <1>6 DEF DeviceAsks, Answers, MView, module
  <2>3. QED
    BY <2>1, <2>2 DEF DeviceAsks
<1>7. ASSUME ModuleAsks PROVE ModuleAsks'
  <2>1. DView.back = MView.out /\ DView.out = MView.back
        /\ DView'.back = MView'.out /\ DView'.out = MView'.back
    BY DEF MView, DView
  <2>2. MView.out \in Seq(InFlight) /\ MView.back \in Seq(InFlight)
    BY <1>7 DEF ModuleAsks, Asks, Shaped
  <2>3. /\ Answers(DView') /\ DView'.back = AfterFirst(DView.back, n)
        /\ DView'.out = On(DView.out, Reply(DView.back, n))
    BY <1>1, <1>7, <2>1, <2>2, AnswererTurn DEF ModuleAsks
  <2>4. SameSide(MView, MView') /\ MView'.incoming = MView.incoming
        /\ MView'.queue = MView.queue /\ MView'.tried = MView.tried
    BY <1>2, <1>3 DEF SameSide, MView, module
  <2>5. /\ Asks(MView')
        /\ 2 * Delay <= MView.timeout /\ MView.state = "WAITING_FOR_ANSWER" /\ UnderWay(MView)
             => UnderWay(MView')
    BY <1>7, <2>1, <2>3, <2>4, ReplyKeeps DEF ModuleAsks
  <2>6. Accounted(MView', ModuleRequest, ModuleNotice)
    BY <1>7, <2>4 DEF ModuleAsks, Accounted, SameSide
  <2>7. TriesLost(MView', losses')
    BY <1>2, <1>7, <2>4, <2>5 DEF ModuleAsks, TriesLost, SameSide
  <2>8. QED
    BY <2>3, <2>5, <2>6, <2>7 DEF ModuleAsks
<1>8. QED
  BY <1>5, <1>6, <1>7

\* The module's application sends: only where the module asks.
LEMMA ModuleSendsKeeps ==
  ASSUME LinkTypes, ModuleSends
  PROVE  LinkTypes' /\ (ModuleAsks => ModuleAsks') /\ "module" \in speakers
<1>1. /\ "module" \in speakers /\ UNCHANGED <<device, line, due, heard, losses, speakers>>
      /\ \/ \E m \in ModuleRequest, k \in Repeats : M!send_message(m, k, 0)
         \/ \E m \in ModuleNotice : M!send_message_without_answer(m)
  BY DEF ModuleSends
<1>2. PICK item \in Item(ModuleRequest, ModuleNotice) :
        /\ M!Enqueue(item) /\ item.number_of_retries = item.granted
        /\ item.msg \in (IF item.no_answer THEN ModuleNotice ELSE ModuleRequest)
  <2>1. ASSUME NEW m \in ModuleRequest, NEW k \in Repeats, M!send_message(m, k, 0)
        PROVE  \E item \in Item(ModuleRequest, ModuleNotice) :
                 /\ M!Enqueue(item) /\ item.number_of_retries = item.granted
                 /\ item.msg \in (IF item.no_answer THEN ModuleNotice ELSE ModuleRequest)
    <3>1. M!Lesser(k, MAX_PACKET_RETRIES) + 1 \in Nat
      BY LinkAssumption DEF M!Lesser
    <3>2. /\ M!Request(m, k, 0) \in Item(ModuleRequest, ModuleNotice)
          /\ M!Request(m, k, 0).msg = m /\ ~M!Request(m, k, 0).no_answer
          /\ M!Request(m, k, 0).number_of_retries = M!Request(m, k, 0).granted
      BY <3>1 DEF M!Request, Item
    <3>3. QED
      BY <2>1, <3>2 DEF M!send_message
  <2>2. ASSUME NEW m \in ModuleNotice, M!send_message_without_answer(m)
        PROVE  \E item \in Item(ModuleRequest, ModuleNotice) :
                 /\ M!Enqueue(item) /\ item.number_of_retries = item.granted
                 /\ item.msg \in (IF item.no_answer THEN ModuleNotice ELSE ModuleRequest)
    <3>1. /\ M!Notification(m) \in Item(ModuleRequest, ModuleNotice)
          /\ M!Notification(m).msg = m /\ M!Notification(m).no_answer
          /\ M!Notification(m).number_of_retries = M!Notification(m).granted
      BY DEF M!Notification, Item
    <3>2. QED
      BY <2>2, <3>1 DEF M!send_message_without_answer
  <2>3. QED
    BY <1>1, <2>1, <2>2
<1>3. /\ m_queue' = Append(m_queue, item)
      /\ UNCHANGED <<m_state, m_incoming, m_last, m_timeout, m_cooldown, m_cooldown_left,
                     m_answer_left, m_tried>>
  BY <1>2 DEF M!Enqueue, M!settings, M!timers, M!history
<1>4. LinkTypes'
  BY <1>1, <1>3 DEF LinkTypes, device
<1>5. ASSUME ModuleAsks PROVE ModuleAsks'
  <2>1. /\ SameSide(MView, MView') /\ MView'.incoming = MView.incoming
        /\ MView'.out = MView.out /\ MView'.back = MView.back
        /\ MView'.tried = MView.tried /\ MView'.queue = Append(MView.queue, item)
    BY <1>1, <1>3 DEF SameSide, MView, line
  <2>2. Part(MView.out, MView.out) /\ Part(MView.back, MView.back)
    BY <1>5, SameIsPart DEF ModuleAsks, Asks, Shaped
  <2>3. Asks(MView')
    BY <1>5, <2>1, <2>2, FewerKeeps DEF ModuleAsks
  <2>4. Accounted(MView', ModuleRequest, ModuleNotice)
    BY <1>2, <1>5, <2>1, SendKeepsAccounts DEF ModuleAsks, SameSide
  <2>5. Answers(DView')
    BY <1>1, <1>5 DEF ModuleAsks, Answers, DView, device
  <2>6. TriesLost(MView', losses')
    BY <1>1, <1>5, <2>1 DEF ModuleAsks, TriesLost, SameSide, UnderWay
  <2>7. QED
    BY <2>3, <2>4, <2>5, <2>6 DEF ModuleAsks
<1>6. QED
  BY <1>1, <1>4, <1>5

\* The device's application sends.
LEMMA DeviceSendsKeeps ==
  ASSUME LinkTypes, DeviceSends
  PROVE  LinkTypes' /\ (DeviceAsks => DeviceAsks') /\ "device" \in speakers
<1>1. /\ "device" \in speakers /\ UNCHANGED <<module, line, due, heard, losses, speakers>>
      /\ \E m \in DeviceRequest, k \in Repeats : D!send_message(m, k, 0)
  BY DEF DeviceSends
<1>2. PICK m \in DeviceRequest, k \in Repeats : D!send_message(m, k, 0)
  BY <1>1
<1> DEFINE item == D!Request(m, k, 0)
<1>3. D!Lesser(k, MAX_PACKET_RETRIES) + 1 \in Nat
  BY LinkAssumption DEF D!Lesser
<1>4. /\ item \in Item(DeviceRequest, {}) /\ item.number_of_retries = item.granted
      /\ item.msg \in (IF item.no_answer THEN {} ELSE DeviceRequest)
  BY <1>3 DEF D!Request, Item
<1> HIDE DEF item
<1>5. /\ d_queue' = Append(d_queue, item)
      /\ UNCHANGED <<d_state, d_incoming, d_last, d_timeout, d_cooldown, d_cooldown_left,
                     d_answer_left, d_tried>>
  BY <1>2 DEF D!send_message, D!Enqueue, D!settings, D!timers, D!history, item
<1>6. LinkTypes'
  BY <1>1, <1>5 DEF LinkTypes, module
<1>7. ASSUME DeviceAsks PROVE DeviceAsks'
  <2>1. /\ SameSide(DView, DView') /\ DView'.incoming = DView.incoming
        /\ DView'.out = DView.out /\ DView'.back = DView.back
        /\ DView'.tried = DView.tried /\ DView'.queue = Append(DView.queue, item)
    BY <1>1, <1>5 DEF SameSide, DView, line
  <2>2. Part(DView.out, DView.out) /\ Part(DView.back, DView.back)
    BY <1>7, SameIsPart DEF DeviceAsks, Asks, Shaped
  <2>3. Asks(DView')
    BY <1>7, <2>1, <2>2, FewerKeeps DEF DeviceAsks
  <2>4. Accounted(DView', DeviceRequest, {})
    BY <1>4, <1>7, <2>1, SendKeepsAccounts DEF DeviceAsks, SameSide
  <2>5. Answers(MView')
    BY <1>1, <1>7 DEF DeviceAsks, Answers, MView, module
  <2>6. QED
    BY <2>3, <2>4, <2>5 DEF DeviceAsks
<1>8. QED
  BY <1>1, <1>6, <1>7

\* A frame is lost, for either side.
LEMMA LoseKeeps ==
  ASSUME LinkTypes, Lose
  PROVE  LinkTypes' /\ (ModuleAsks => ModuleAsks') /\ (DeviceAsks => DeviceAsks')
<1>1. /\ losses' = losses + 1 /\ UNCHANGED <<module, device, due, heard, speakers>>
      /\ \/ \E i \in DOMAIN to_module : to_module' = RemoveAt(to_module, i) /\ to_device' = to_device
         \/ \E i \in DOMAIN to_device : to_device' = RemoveAt(to_device, i) /\ to_module' = to_module
  BY DEF Lose
<1>2. LinkTypes'
  BY <1>1 DEF LinkTypes, module, device
<1>3. ASSUME to_module \in Seq(InFlight), to_device \in Seq(InFlight)
      PROVE  Part(to_module', to_module) /\ Part(to_device', to_device)
  BY <1>1, <1>3, SameIsPart, RemoveAtIsPart
<1>4. ASSUME ModuleAsks PROVE ModuleAsks'
  <2>1. Part(MView'.out, MView.out) /\ Part(MView'.back, MView.back)
    BY <1>3, <1>4 DEF ModuleAsks, Asks, Shaped, MView
  <2>2. /\ SameSide(MView, MView') /\ MView'.incoming = MView.incoming
        /\ MView'.queue = MView.queue /\ MView'.tried = MView.tried
    BY <1>1 DEF SameSide, MView, module
  <2>3. Asks(MView')
    BY <1>4, <2>1, <2>2, FewerKeeps DEF ModuleAsks
  <2>4. Accounted(MView', ModuleRequest, ModuleNotice)
    BY <1>4, <2>2 DEF ModuleAsks, Accounted, SameSide
  <2>5. Answers(DView')
    BY <1>1, <1>4 DEF ModuleAsks, Answers, DView, device
  <2>6. TriesLost(MView', losses')
    <3>1. MView.tried \in Nat /\ losses \in Nat
      BY <1>4 DEF ModuleAsks, Accounted, LinkTypes
    <3>2. TriesLost(MView, losses)
      BY <1>4 DEF ModuleAsks
    <3>3. QED
      BY <1>1, <2>2, <3>1, <3>2 DEF TriesLost, SameSide
  <2>7. QED
    BY <2>3, <2>4, <2>5, <2>6 DEF ModuleAsks
<1>5. ASSUME DeviceAsks PROVE DeviceAsks'
  <2>1. Part(DView'.out, DView.out) /\ Part(DView'.back, DView.back)
    BY <1>3, <1>5 DEF DeviceAsks, Asks, Shaped, DView
  <2>2. /\ SameSide(DView, DView') /\ DView'.incoming = DView.incoming
        /\ DView'.queue = DView.queue /\ DView'.tried = DView.tried
    BY <1>1 DEF SameSide, DView, device
  <2>3. Asks(DView')
    BY <1>5, <2>1, <2>2, FewerKeeps DEF DeviceAsks
  <2>4. Accounted(DView', DeviceRequest, {})
    BY <1>5, <2>2 DEF DeviceAsks, Accounted, SameSide
  <2>5. Answers(MView')
    BY <1>1, <1>5 DEF DeviceAsks, Answers, MView, module
  <2>6. QED
    BY <2>3, <2>4, <2>5 DEF DeviceAsks
<1>6. QED
  BY <1>2, <1>4, <1>5

\* Time passes for both sides and the line.
LEMMA TickKeeps ==
  ASSUME LinkTypes, Tick
  PROVE  LinkTypes' /\ (ModuleAsks => ModuleAsks') /\ (DeviceAsks => DeviceAsks')
<1>1. /\ \A i \in DOMAIN to_module : to_module[i].age < Delay
      /\ \A i \in DOMAIN to_device : to_device[i].age < Delay
      /\ to_module' = Older(to_module) /\ to_device' = Older(to_device)
      /\ UNCHANGED <<heard, losses, speakers>>
  BY DEF Tick
<1>2. /\ m_cooldown_left' = M!Left(m_cooldown_left, 1) /\ m_answer_left' = M!Left(m_answer_left, 1)
      /\ UNCHANGED <<m_state, m_queue, m_incoming, m_last, m_timeout, m_cooldown, m_tried>>
  BY DEF Tick, M!Tick, M!settings
<1>3. /\ d_cooldown_left' = M!Left(d_cooldown_left, 1) /\ d_answer_left' = M!Left(d_answer_left, 1)
      /\ UNCHANGED <<d_state, d_queue, d_incoming, d_last, d_timeout, d_cooldown, d_tried>>
  BY DEF Tick, D!Tick, D!settings, D!Left, M!Left
<1>4. LinkTypes'
  BY <1>1, <1>2, <1>3 DEF LinkTypes
<1>5. Answers(DView) => Answers(DView')
  BY <1>1, <1>3 DEF Answers, DView
<1>6. Answers(MView) => Answers(MView')
  BY <1>1, <1>2 DEF Answers, MView
<1>7. ASSUME ModuleAsks PROVE ModuleAsks'
  <2>1. /\ \A i \in DOMAIN MView.out : MView.out[i].age < Delay
        /\ \A i \in DOMAIN MView.back : MView.back[i].age < Delay
        /\ MView'.state = MView.state /\ MView'.incoming = MView.incoming
        /\ MView'.last = MView.last /\ MView'.heard = MView.heard
        /\ MView'.timeout = MView.timeout /\ MView'.cooldown = MView.cooldown
        /\ MView'.cool = M!Left(MView.cool, 1) /\ MView'.ans = M!Left(MView.ans, 1)
        /\ MView'.out = Older(MView.out) /\ MView'.back = Older(MView.back)
        /\ MView'.queue = MView.queue /\ MView'.tried = MView.tried
    BY <1>1, <1>2 DEF MView
  <2>2. Asks(MView') /\ (UnderWay(MView) => UnderWay(MView'))
    BY <1>7, <2>1, TimeKeeps DEF ModuleAsks
  <2>3. Accounted(MView', ModuleRequest, ModuleNotice)
    BY <1>7, <2>1 DEF ModuleAsks, Accounted
  <2>4. TriesLost(MView', losses')
    BY <1>1, <1>7, <2>1, <2>2 DEF ModuleAsks, TriesLost
  <2>5. QED
    BY <1>5, <1>7, <2>2, <2>3, <2>4 DEF ModuleAsks
<1>8. ASSUME DeviceAsks PROVE DeviceAsks'
  <2>1. /\ \A i \in DOMAIN DView.out : DView.out[i].age < Delay
        /\ \A i \in DOMAIN DView.back : DView.back[i].age < Delay
        /\ DView'.state = DView.state /\ DView'.incoming = DView.incoming
        /\ DView'.last = DView.last /\ DView'.heard = DView.heard
        /\ DView'.timeout = DView.timeout /\ DView'.cooldown = DView.cooldown
        /\ DView'.cool = M!Left(DView.cool, 1) /\ DView'.ans = M!Left(DView.ans, 1)
        /\ DView'.out = Older(DView.out) /\ DView'.back = Older(DView.back)
        /\ DView'.queue = DView.queue /\ DView'.tried = DView.tried
    BY <1>1, <1>3 DEF DView
  <2>2. Asks(DView')
    BY <1>8, <2>1, TimeKeeps DEF DeviceAsks
  <2>3. Accounted(DView', DeviceRequest, {})
    BY <1>8, <2>1 DEF DeviceAsks, Accounted
  <2>4. QED
    BY <1>6, <1>8, <2>2, <2>3 DEF DeviceAsks
<1>9. QED
  BY <1>4, <1>7, <1>8

\* Every step keeps the invariant.
LEMMA NextKeepsLinkInv == LinkInv /\ [Next]_vars => LinkInv'
<1>1. SUFFICES ASSUME LinkInv, [Next]_vars PROVE LinkInv'
  OBVIOUS
<1>2. LinkTypes
  BY <1>1 DEF LinkInv
<1>3. CASE ModuleLoop
  BY <1>1, <1>2, <1>3, ModuleLoopKeeps DEF LinkInv, ModuleLoop
<1>4. CASE DeviceLoop
  BY <1>1, <1>2, <1>4, DeviceLoopKeeps DEF LinkInv, DeviceLoop
<1>5. CASE ModuleSends
  BY <1>1, <1>2, <1>5, ModuleSendsKeeps DEF LinkInv, ModuleSends
<1>6. CASE DeviceSends
  BY <1>1, <1>2, <1>6, DeviceSendsKeeps DEF LinkInv, DeviceSends
<1>7. CASE Lose
  BY <1>1, <1>2, <1>7, LoseKeeps DEF LinkInv, Lose
<1>8. CASE Tick
  BY <1>1, <1>2, <1>8, TickKeeps DEF LinkInv, Tick
<1>9. CASE UNCHANGED vars
  <2>1. MView' = MView /\ DView' = DView /\ LinkTypes' /\ losses' = losses /\ speakers' = speakers
    BY <1>2, <1>9 DEF vars, module, device, line, MView, DView, LinkTypes
  <2>2. QED
    BY <1>1, <2>1 DEF LinkInv, ModuleAsks, DeviceAsks
<1>10. QED
  BY <1>1, <1>3, <1>4, <1>5, <1>6, <1>7, <1>8, <1>9 DEF Next

\* With one side asking, everything that is under way on the line belongs to the
\* message its ProtocolHandler::loop() wrote last and is no older than what has
\* passed of the cooldown or of the answer time; the other side keeps nothing; and
\* each try of a request of the module but the one under way was lost.
THEOREM LinkInvariant == Spec => []LinkInv
<1>1. QED
  BY InitLinkInv, NextKeepsLinkInv, PTL DEF Spec

\* With one side asking there is a side that does not.
LEMMA OneSide ==
  ASSUME LinkTypes, OneSideBegins
  PROVE  "device" \notin speakers \/ "module" \notin speakers
<1>1. SUFFICES ASSUME speakers = {"module", "device"} PROVE FALSE
  BY DEF LinkTypes
<1>2. Cardinality({"device"} \cup {"module"}) = 2
  <2>1. Cardinality({"device"}) = 1 /\ IsFiniteSet({"device"})
    BY FS_Singleton
  <2>2. Cardinality({"device"} \cup {"module"}) = Cardinality({"device"}) + 1
    BY <2>1, FS_AddElement
  <2>3. QED
    BY <2>1, <2>2
<1>3. QED
  <2>1. speakers = {"device"} \cup {"module"}
    BY <1>1
  <2>2. QED
    BY <2>1, <1>2 DEF OneSideBegins

\* The frame that loop() gives to an answer handler is the answer to the request it
\* is told of, for any messages, tries, times and losses, if only one side asks and a
\* round trip fits into the answer timeout or the cooldown.
THEOREM AnswersMatchRequests == Spec => []AnswersMatchWhenPrompt
<1>1. LinkInv => AnswersMatchWhenPrompt
  <2>1. SUFFICES ASSUME LinkInv, OneSideBegins, RoundTripFits PROVE AnswersMatch
    BY DEF AnswersMatchWhenPrompt
  <2>2. ASSUME ModuleAsks PROVE AnswersMatch
    BY <2>1, <2>2 DEF LinkInv, LinkTypes, ModuleAsks, Asks, HeardRight, Answers, MView, DView,
       AnswersMatch, RoundTripFits
  <2>3. ASSUME DeviceAsks PROVE AnswersMatch
    BY <2>1, <2>3 DEF LinkInv, LinkTypes, DeviceAsks, Asks, HeardRight, Answers, MView, DView,
       AnswersMatch, RoundTripFits
  <2>4. QED
    BY <2>1, <2>2, <2>3, OneSide DEF LinkInv
<1>2. QED
  BY <1>1, LinkInvariant, PTL

\* Only loop() of the module tells anyone of what it did.
LEMMA ToldInLoop ==
  ASSUME [Next]_vars, m_queue' # m_queue, m_calls' # {}
  PROVE  ModuleLoop
<1>1. DeviceLoop \/ Lose \/ DeviceSends \/ UNCHANGED vars => m_queue' = m_queue
  BY DEF DeviceLoop, Lose, DeviceSends, vars, module
<1>2. ModuleSends \/ Tick => m_calls' = {}
  BY DEF ModuleSends, Tick, M!Tick, M!send_message, M!send_message_without_answer, M!Enqueue
<1>3. QED
  BY <1>1, <1>2 DEF Next

\* Where a round trip fits into the answer timeout, loop() of the module gives a
\* request up, with its tries used, only when it or its answer was lost that often.
THEOREM ExpiresByLossOnly == Spec => ExpiresOnlyByLoss
<1>1. ASSUME LinkInv, [Next]_vars, OneSideBegins, 2 * Delay <= m_timeout, Expires
      PROVE  losses >= Head(m_queue).granted
  <2>1. m_queue # <<>> /\ m_queue' = Tail(m_queue)
        /\ M!Call("expire", Head(m_queue).msg) \in m_calls'
    BY <1>1 DEF Expires
  <2>2. ModuleAsks
    <3>1. "module" \in speakers
      BY <1>1, <2>1 DEF LinkInv, DeviceAsks, Answers, MView
    <3>2. QED
      BY <1>1, <3>1, OneSide DEF LinkInv
  <2>3. m_queue \in Seq(Item(ModuleRequest, ModuleNotice))
        /\ Head(m_queue).number_of_retries + m_tried = Head(m_queue).granted /\ m_tried \in Nat
    <3>1. /\ m_queue \in Seq(Item(ModuleRequest, ModuleNotice)) /\ m_tried \in Nat
          /\ m_queue[1].number_of_retries + m_tried = m_queue[1].granted
      BY <2>1, <2>2 DEF ModuleAsks, Accounted, MView
    <3>2. QED
      BY <2>1, <3>1
  <2>4. m_queue' # m_queue
    BY <2>1, <2>3, HeadTailProperties, LenProperties, EmptySeq
  <2>5. ModuleLoop
    BY <1>1, <2>1, <2>4, ToldInLoop
  <2>6. PICK n \in 0 .. Len(MView.back) : Turn(MView, MView', n)
    BY <1>1, <2>5, ModuleTurn DEF LinkInv, LinkTypes
  <2>7. M!Call("expire", Head(m_queue).msg) \in MView'.calls
    BY <2>1 DEF MView
  <2>8. MView.ans < 0 /\ Head(m_queue).number_of_retries = 0
    <3>1. Seen(MView, n) \subseteq {M!Answering}
      BY DEF Seen
    <3>2. ~IdleTurn(MView, MView', n)
      BY <2>7, <3>1 DEF IdleTurn, RestTurn, DropTurn, WriteTurn, M!Call, M!Answering
    <3>3. WaitingTurn(MView, MView', n)
      BY <2>6, <3>2 DEF Turn
    <3>4. MView.queue = m_queue
      BY DEF MView
    <3>5. QED
      BY <2>7, <3>3, <3>4 DEF WaitingTurn, OverTurn, AnsweredTurn, WaitTurn, M!Call
  <2>9. m_tried <= losses
    <3>1. MView.timeout = m_timeout /\ MView.tried = m_tried
      BY DEF MView
    <3>2. ~UnderWay(MView)
      BY <1>1, <2>2, <2>8, <3>1, NothingLate DEF ModuleAsks
    <3>3. QED
      BY <1>1, <2>2, <3>1, <3>2 DEF ModuleAsks, TriesLost
  <2>10. QED
    BY <2>3, <2>8, <2>9
<1>2. LinkInv /\ [Next]_vars =>
        [OneSideBegins /\ 2 * Delay <= m_timeout /\ Expires => losses >= Head(m_queue).granted]_vars
  BY <1>1
<1>3. QED
  BY <1>2, LinkInvariant, PTL DEF Spec, ExpiresOnlyByLoss
=============================================================================
