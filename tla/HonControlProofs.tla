--------------------------- MODULE HonControlProofs ---------------------------
(***************************************************************************)
(* The safety properties of HonControl, for any fields followed, values    *)
(* sent and packets of the peer.                                           *)
(*                                                                         *)
(* A job is a sequence of changes, each of one byte; IInv says of the jobs *)
(* which changes are in them, of a loaded copy where it may be stale, of a *)
(* started pairing where its set point is, and of a request under way that *)
(* each of its changes is still in the job, shown by the packet, or in a   *)
(* byte that a key stored.                                                 *)
(***************************************************************************)
EXTENDS HonControl, SequenceTheorems, TLAPS

-----------------------------------------------------------------------------
(* Fields, bytes and changes                                               *)

\* A change assigns fields of one byte.
OneByte(change) == \A f, g \in DOMAIN change : ByteOf(f) = ByteOf(g)

Change == {change \in UNION {[D -> Nat] : D \in SUBSET Field} : OneByte(change)}

\* The fields of a change, the numbers it gives them, and that they are of one byte.
LEMMA ChangeParts ==
  ASSUME NEW change \in Change
  PROVE  /\ DOMAIN change \subseteq Field
         /\ \A f \in DOMAIN change : change[f] \in Nat
         /\ OneByte(change)
<1>1. PICK D \in SUBSET Field : change \in [D -> Nat]
  BY DEF Change
<1>2. QED
  BY <1>1 DEF Change

\* Numbers for fields of one byte are a change.
LEMMA ChangeOfFields ==
  ASSUME NEW D, D \subseteq Field, NEW change \in [D -> Nat], OneByte(change)
  PROVE  change \in Change
BY DEF Change

\* A field holds as many values as its bits allow.
LEMMA SizeOfField ==
  ASSUME NEW f
  PROVE  /\ Size(f) \in Nat /\ Size(f) >= 2
         /\ \A n \in Nat : /\ n % Size(f) \in 0 .. Size(f) - 1
                           /\ n < Size(f) => n % Size(f) = n
<1>1. Size(f) \in {2, 4, 8, 16, 256}
  BY DEF Size
<1>2. CASE Size(f) = 2
  BY <1>2
<1>3. CASE Size(f) = 4
  BY <1>3
<1>4. CASE Size(f) = 8
  BY <1>4
<1>5. CASE Size(f) = 16
  BY <1>5
<1>6. CASE Size(f) = 256
  BY <1>6
<1>7. QED
  BY <1>1, <1>2, <1>3, <1>4, <1>5, <1>6

\* The byte of a field has it.
LEMMA FieldInByte ==
  ASSUME NEW f \in Field
  PROVE  ByteOf(f) \in DOMAIN Bytes /\ f \in Bytes[ByteOf(f)]
<1>1. \E b \in DOMAIN Bytes : f \in Bytes[b]
  BY DEF Field
<1>2. QED
  BY <1>1 DEF ByteOf

\* The set point has a byte of its own.
LEMMA SetPointByte ==
  ASSUME NEW f \in Field, ByteOf(f) = ByteOf("set_point")
  PROVE  f = "set_point"
<1>1. \A b \in DOMAIN Bytes : "set_point" \in Bytes[b] <=> b = 1
  BY DEF Bytes
<1>2. 1 \in DOMAIN Bytes /\ Bytes[1] = {"set_point"}
  BY DEF Bytes
<1>3. ByteOf("set_point") = 1
  BY <1>1, <1>2 DEF ByteOf
<1>4. QED
  BY <1>2, <1>3, FieldInByte

\* One field set to a number is a change.
LEMMA ChangeOfOne ==
  ASSUME NEW f \in Field, NEW n \in Nat
  PROVE  /\ [g \in {f} |-> n] \in Change
         /\ DOMAIN [g \in {f} |-> n] = {f}
<1>1. OneByte([g \in {f} |-> n])
  BY DEF OneByte
<1>2. QED
  BY <1>1 DEF Change

\* Fields that the code names are among those of the packet.
LEMMA FollowedFields ==
  /\ Followed \subseteq Field
  /\ {"set_point", "ac_power", "quiet_mode", "health_mode"} \subseteq Followed
  /\ "steri_clean" \in Field /\ "self_cleaning_status" \in Field
  /\ \A i \in DOMAIN PairingFields : PairingFields[i] \in Field
<1>1. /\ 5 \in DOMAIN Bytes /\ "steri_clean" \in Bytes[5]
      /\ 10 \in DOMAIN Bytes /\ "self_cleaning_status" \in Bytes[10]
  BY DEF Bytes
<1>2. "steri_clean" \in Field /\ "self_cleaning_status" \in Field
  BY <1>1 DEF Field
<1>3. \A i \in DOMAIN PairingFields : PairingFields[i] \in Field
  BY DEF PairingFields, Field, Bytes
<1>4. QED
  BY <1>2, <1>3, FollowedAssumption

\* The changes that the two blocks of preloop() make.
LEMMA PairingIsChanges ==
  /\ PairingChanges \in Seq(Change)
  /\ \A i \in DOMAIN PairingChanges : \A f \in DOMAIN PairingChanges[i] :
       f \in Field /\ PairingChanges[i][f] = PairingValue(f)
  /\ \E i \in DOMAIN PairingChanges : "set_point" \in DOMAIN PairingChanges[i]
<1>1. \A f : PairingValue(f) \in Nat
  BY DEF PairingValue, PairingSetPoint
<1>2. /\ Len(PairingFields) \in Nat /\ DOMAIN PairingFields = 1 .. Len(PairingFields)
      /\ 1 \in DOMAIN PairingFields /\ PairingFields[1] = "set_point"
  BY DEF PairingFields
<1>3. \A i \in 1 .. Len(PairingFields) :
        /\ PairingChanges[i] \in Change
        /\ \A f \in DOMAIN PairingChanges[i] :
             f \in Field /\ PairingChanges[i][f] = PairingValue(f)
  <2> SUFFICES ASSUME NEW i \in 1 .. Len(PairingFields)
               PROVE  /\ PairingChanges[i] \in Change
                      /\ \A f \in DOMAIN PairingChanges[i] :
                           f \in Field /\ PairingChanges[i][f] = PairingValue(f)
    OBVIOUS
  <2> DEFINE field == PairingFields[i]
  <2>1. field \in Field
    BY <1>2, FollowedFields
  <2> HIDE DEF field
  <2>2. PairingChanges[i] = [f \in {field} |-> PairingValue(f)]
    BY <1>2 DEF PairingChanges, field
  <2>3. [f \in {field} |-> PairingValue(f)] = [f \in {field} |-> PairingValue(field)]
    OBVIOUS
  <2>4. [f \in {field} |-> PairingValue(field)] \in Change
    BY <1>1, <2>1, ChangeOfOne
  <2>5. QED
    BY <2>1, <2>2, <2>3, <2>4
<1>4. DOMAIN PairingChanges = 1 .. Len(PairingFields)
  BY <1>2 DEF PairingChanges
<1>5. PairingChanges \in Seq(Change)
  <2>1. PairingChanges \in [1 .. Len(PairingFields) -> Change]
    BY <1>2, <1>3 DEF PairingChanges
  <2>2. QED
    BY <2>1, <1>2, SeqDef
<1>6. "set_point" \in DOMAIN PairingChanges[1]
  BY <1>2 DEF PairingChanges
<1>7. QED
  BY <1>2, <1>3, <1>4, <1>5, <1>6
-----------------------------------------------------------------------------
(* What a request asks for                                                 *)

\* The changes of a request that is answered with the packet.
AskedFor(r) ==
  CASE r.kind = "SET_GROUP_PARAMETERS" -> GroupChanges(r)
    [] r.kind = "SET_SINGLE_PARAMETER" -> <<[f \in {r.parameter} |-> r.value]>>
    [] OTHER                           -> <<>>

\* A field or two of one byte each, and each byte once.
Apart(changes) ==
  \A i, j \in DOMAIN changes : \A f \in DOMAIN changes[i], g \in DOMAIN changes[j] :
    ByteOf(f) = ByteOf(g) => i = j

AreAsked(changes) ==
  /\ changes \in Seq(Change) /\ Apart(changes)
  /\ \A i \in DOMAIN changes : DOMAIN changes[i] \subseteq Followed

\* No change at all is asked for rightly.
LEMMA NoChanges == AreAsked(<<>>)
BY DEF AreAsked, Apart

\* One change of followed fields is asked for rightly.
LEMMA OneChange ==
  ASSUME NEW change \in Change, DOMAIN change \subseteq Followed
  PROVE  /\ AreAsked(<<change>>)
         /\ DOMAIN <<change>> = {1} /\ <<change>>[1] = change
BY DEF AreAsked, Apart

\* The kinds of request that carry values.
LEMMA RequestParts ==
  ASSUME NEW r \in Request
  PROVE  /\ r.kind = "SET_GROUP_PARAMETERS" =>
              r.group \in [Followed -> Nat] /\ \A f \in Followed : r.group[f] < Size(f)
         /\ r.kind = "SET_SINGLE_PARAMETER" =>
              r.value \in Nat /\ (r.parameter = "unknown" \/ r.parameter \in Followed)
<1>1. CASE r.kind = "SET_GROUP_PARAMETERS"
  <2>1. r.group \in Groups
    BY <1>1 DEF Request
  <2>2. QED
    BY <1>1, <2>1, GroupsAssumption
<1>2. CASE r.kind = "SET_SINGLE_PARAMETER"
  <2> DEFINE known == DOMAIN Parameter \cap (Followed \cup {"unknown"})
             Long == [kind: {"SET_SINGLE_PARAMETER"}, size: {4}, parameter: known, value: Values]
             Short == [kind: {"SET_SINGLE_PARAMETER"}, size: {2}, parameter: {"unknown"},
                       value: {0}]
  <2>1. r \in Long \cup Short
    <3> HIDE DEF known
    <3>1. r \in Request
      OBVIOUS
    <3>2. \/ r.kind # "SET_SINGLE_PARAMETER"
          \/ r \in [kind: {"SET_SINGLE_PARAMETER"}, size: {4},
                   parameter: DOMAIN Parameter \cap (Followed \cup {"unknown"}), value: Values]
          \/ r \in Short
      BY <3>1 DEF Request
    <3>3. QED
      BY <1>2, <3>2 DEF known
  <2>2. CASE r \in Long
    BY <2>2, ValuesAssumption
  <2>3. CASE r \in Short
    BY <2>3
  <2>4. QED
    BY <2>1, <2>2, <2>3
<1>3. QED
  BY <1>1, <1>2

\* A group sets each byte once, and only fields that are followed.
LEMMA GroupIsAsked ==
  ASSUME NEW r, r.group \in [Followed -> Nat]
  PROVE  AreAsked(GroupChanges(r))
<1> DEFINE changes == GroupChanges(r)
           In(b) == {g \in Followed : ByteOf(g) = b}
<1>1. Len(Bytes) \in Nat /\ DOMAIN Bytes = 1 .. Len(Bytes)
  BY DEF Bytes
<1>2. DOMAIN changes = 1 .. Len(Bytes)
      /\ \A b \in 1 .. Len(Bytes) : changes[b] = [f \in In(b) |-> r.group[f]]
  BY <1>1 DEF GroupChanges
<1>3. \A b \in 1 .. Len(Bytes) : changes[b] \in Change /\ DOMAIN changes[b] = In(b)
  <2> SUFFICES ASSUME NEW b \in 1 .. Len(Bytes)
               PROVE  changes[b] \in Change /\ DOMAIN changes[b] = In(b)
    OBVIOUS
  <2>1. changes[b] = [f \in In(b) |-> r.group[f]]
    BY <1>2
  <2>2. changes[b] \in [In(b) -> Nat] /\ DOMAIN changes[b] = In(b)
    BY <2>1
  <2>3. OneByte(changes[b])
    BY <2>2 DEF OneByte
  <2>4. In(b) \subseteq Field
    BY FollowedFields
  <2> HIDE DEF changes, In
  <2>5. QED
    BY <2>2, <2>3, <2>4, ChangeOfFields
<1>4. changes \in Seq(Change)
  <2>1. changes \in [1 .. Len(Bytes) -> Change]
    BY <1>1, <1>3 DEF GroupChanges
  <2>2. QED
    BY <2>1, <1>1, SeqDef
<1>5. Apart(changes)
  <2> SUFFICES ASSUME NEW i \in DOMAIN changes, NEW j \in DOMAIN changes,
                      NEW f \in DOMAIN changes[i], NEW g \in DOMAIN changes[j],
                      ByteOf(f) = ByteOf(g)
               PROVE  i = j
    BY DEF Apart
  <2>1. f \in In(i) /\ g \in In(j)
    BY <1>2, <1>3
  <2>2. QED
    BY <2>1
<1>6. QED
  BY <1>2, <1>3, <1>4, <1>5 DEF AreAsked

Untested == {"set_point", "ac_mode", "fan_mode"}

\* A command of one parameter that is accepted: the parameter is known, and its value
\* is a bit unless it is not tested.
WellAsked(r) ==
  r.kind = "SET_SINGLE_PARAMETER" =>
    r.parameter # "unknown" /\ (r.parameter \in Untested \/ r.value <= 1)

\* What is asked for is about fields that are followed, each byte of it once.
LEMMA AskedIsChanges ==
  ASSUME NEW r \in Request, WellAsked(r)
  PROVE  AreAsked(AskedFor(r))
<1>1. CASE r.kind = "SET_GROUP_PARAMETERS"
  <2>1. AskedFor(r) = GroupChanges(r)
    BY <1>1 DEF AskedFor
  <2>2. QED
    BY <2>1, <1>1, RequestParts, GroupIsAsked
<1>2. CASE r.kind = "SET_SINGLE_PARAMETER"
  <2>1. AskedFor(r) = <<[f \in {r.parameter} |-> r.value]>>
    BY <1>2 DEF AskedFor
  <2>2. r.value \in Nat /\ r.parameter \in Followed
    BY <1>2, RequestParts DEF WellAsked
  <2>3. QED
    BY <2>1, <2>2, ChangeOfOne, OneChange, FollowedFields
<1>3. CASE r.kind \notin {"SET_GROUP_PARAMETERS", "SET_SINGLE_PARAMETER"}
  <2>1. AskedFor(r) = <<>>
    BY <1>3 DEF AskedFor
  <2>2. QED
    BY <2>1, NoChanges
<1>4. QED
  BY <1>1, <1>2, <1>3

\* A case of the switch is refused, or stores its value after its test.
LEMMA SingleOutcome ==
  ASSUME NEW parameter, NEW value
  PROVE  LET h == process_single_parameter(parameter, value)
         IN  \/ h = Refused
             \/ /\ parameter # "unknown" /\ (parameter \in Untested \/ value <= 1)
                /\ h = Does(<<[f \in {parameter} |-> value]>>, "HANDLER_OK")
<1>1. CASE parameter = "unknown"
  BY <1>1 DEF process_single_parameter
<1>2. CASE parameter = "set_point"
  BY <1>2 DEF process_single_parameter, Branch, Untested
<1>3. CASE parameter = "ac_mode"
  BY <1>3 DEF process_single_parameter, Branch, Untested
<1>4. CASE parameter = "fan_mode"
  BY <1>4 DEF process_single_parameter, Branch, Untested
<1>5. CASE parameter \notin {"unknown", "set_point", "ac_mode", "fan_mode"}
  <2>1. process_single_parameter(parameter, value) = Branch(value <= 1, parameter, value)
    BY <1>5 DEF process_single_parameter
  <2>2. QED
    BY <1>5, <2>1 DEF Branch
<1>6. QED
  BY <1>1, <1>2, <1>3, <1>4, <1>5

\* A handler refuses its request, makes the changes that it asks for, or notes a report.
LEMMA HandlerOutcome ==
  ASSUME NEW r \in Request
  PROVE  \/ Handle(r) = Refused
         \/ /\ r.kind # "REPORT_NETWORK_STATUS" /\ WellAsked(r)
            /\ Handle(r) = Does(AskedFor(r), "HANDLER_OK")
         \/ /\ r.kind = "REPORT_NETWORK_STATUS"
            /\ Handle(r) = [Does(ReportChanges(r), "HANDLER_OK") EXCEPT !.config = (r.st = 3)]
<1>1. DOMAIN RightSize = {"GET_DEVICE_VERSION", "GET_DEVICE_ID", "GET_ALARM_STATUS",
                          "GET_MANAGEMENT_INFORMATION"}
  BY DEF RightSize
<1>2. CASE r.kind = "REPORT_NETWORK_STATUS"
  <2>1. Handle(r) = report_network_status_handler(r)
    BY <1>1, <1>2 DEF Handle
  <2>2. QED
    BY <1>2, <2>1 DEF report_network_status_handler
<1>3. CASE r.kind \in DOMAIN RightSize
  <2>1. Handle(r) = OtherHandler(r) /\ AskedFor(r) = <<>> /\ WellAsked(r)
        /\ r.kind # "REPORT_NETWORK_STATUS"
    BY <1>1, <1>3 DEF Handle, AskedFor, WellAsked
  <2>2. QED
    BY <2>1 DEF OtherHandler, Refused
<1>4. CASE r.kind # "REPORT_NETWORK_STATUS" /\ r.kind \notin DOMAIN RightSize
  <2>1. Handle(r) = status_request_handler(r)
    BY <1>4 DEF Handle
  <2>2. CASE r.kind \in {"GET_USER_DATA", "GET_BIG_DATA"}
    <3>1. AskedFor(r) = <<>> /\ WellAsked(r)
      BY <2>2 DEF AskedFor, WellAsked
    <3>2. status_request_handler(r) \in {Refused, Does(<<>>, "HANDLER_OK")}
      BY <2>2 DEF status_request_handler
    <3>3. QED
      BY <1>4, <2>1, <3>1, <3>2
  <2>3. CASE r.kind = "SET_GROUP_PARAMETERS"
    <3>1. AskedFor(r) = GroupChanges(r) /\ WellAsked(r)
      BY <2>3 DEF AskedFor, WellAsked
    <3>2. status_request_handler(r) \in {Refused, Does(GroupChanges(r), "HANDLER_OK")}
      BY <2>3 DEF status_request_handler
    <3>3. QED
      BY <1>4, <2>1, <3>1, <3>2
  <2>4. CASE r.kind = "SET_SINGLE_PARAMETER"
    <3>1. AskedFor(r) = <<[f \in {r.parameter} |-> r.value]>>
      BY <2>4 DEF AskedFor
    <3>2. status_request_handler(r) \in {Refused, process_single_parameter(r.parameter, r.value)}
      BY <2>4 DEF status_request_handler
    <3>3. CASE status_request_handler(r) = Refused
      BY <2>1, <3>3
    <3>4. CASE status_request_handler(r) = process_single_parameter(r.parameter, r.value)
      <4>1. \/ Handle(r) = Refused
            \/ /\ r.parameter # "unknown" /\ (r.parameter \in Untested \/ r.value <= 1)
               /\ Handle(r) = Does(<<[f \in {r.parameter} |-> r.value]>>, "HANDLER_OK")
        BY <2>1, <3>4, SingleOutcome
      <4>2. QED
        BY <1>4, <3>1, <4>1 DEF WellAsked
    <3>5. QED
      BY <3>2, <3>3, <3>4
  <2>5. CASE r.kind \notin {"GET_USER_DATA", "GET_BIG_DATA", "SET_GROUP_PARAMETERS",
                            "SET_SINGLE_PARAMETER"}
    BY <2>1, <2>5 DEF status_request_handler
  <2>6. QED
    BY <2>2, <2>3, <2>4, <2>5
<1>5. QED
  BY <1>2, <1>3, <1>4

\* What a request that is accepted asks for is what it names.
LEMMA AskedIsNamed ==
  ASSUME NEW r \in Request, NEW i \in DOMAIN AskedFor(r), NEW f \in DOMAIN AskedFor(r)[i]
  PROVE  f \in DOMAIN Asked(r) /\ f \in Named(r)
<1>1. CASE r.kind = "SET_GROUP_PARAMETERS"
  <2>1. AskedFor(r) = GroupChanges(r) /\ Asked(r) = r.group
    BY <1>1 DEF AskedFor, Asked
  <2>2. /\ i \in DOMAIN Bytes
        /\ AskedFor(r)[i] = [g \in {h \in Followed : ByteOf(h) = i} |-> r.group[g]]
    BY <2>1 DEF GroupChanges
  <2>3. f \in Followed /\ DOMAIN r.group = Followed
    BY <1>1, <2>2, RequestParts
  <2>4. QED
    BY <2>1, <2>3 DEF Named
<1>2. CASE r.kind = "SET_SINGLE_PARAMETER"
  <2>1. AskedFor(r) = <<[g \in {r.parameter} |-> r.value]>>
        /\ Asked(r) = [g \in {r.parameter} |-> r.value]
    BY <1>2 DEF AskedFor, Asked
  <2>2. i = 1 /\ f = r.parameter
    BY <2>1
  <2>3. QED
    BY <2>1, <2>2 DEF Named
<1>3. CASE r.kind \notin {"SET_GROUP_PARAMETERS", "SET_SINGLE_PARAMETER"}
  <2>1. AskedFor(r) = <<>>
    BY <1>3 DEF AskedFor
  <2>2. QED
    BY <2>1
<1>4. QED
  BY <1>1, <1>2, <1>3

\* What a handler does is changes of what its request names, if it accepts it; the set
\* point is among them only if the request ends an offer.
LEMMA TakenIsChanges ==
  ASSUME NEW r \in Request
  PROVE  LET h == Handle(r)
         IN  /\ h.changes \in Seq(Change)
             /\ h.result = "HANDLER_OK" => WellAsked(r)
             /\ h.result = "HANDLER_OK" /\ r.kind # "REPORT_NETWORK_STATUS" =>
                  h.changes = AskedFor(r)
             /\ h.config # config_mode =>
                  h.result = "HANDLER_OK" /\ r.kind = "REPORT_NETWORK_STATUS"
             /\ \A i \in DOMAIN h.changes : \A f \in DOMAIN h.changes[i] :
                  /\ f \in Field /\ h.result = "HANDLER_OK" /\ f \in Named(r)
                  /\ ~EndsOffer(r) => f # "set_point"
<1> DEFINE h == Handle(r)
<1>1. CASE h = Refused
  <2>1. h.changes = <<>> /\ h.result = "error" /\ h.config = config_mode
    BY <1>1 DEF Refused, Does
  <2> HIDE DEF h
  <2>2. QED
    BY <2>1 DEF h
<1>2. CASE r.kind # "REPORT_NETWORK_STATUS" /\ WellAsked(r) /\ h = Does(AskedFor(r), "HANDLER_OK")
  <2>1. h.changes = AskedFor(r) /\ h.result = "HANDLER_OK" /\ h.config = config_mode
    BY <1>2 DEF Does
  <2>2. AreAsked(AskedFor(r))
    BY <1>2, AskedIsChanges
  <2>3. ASSUME NEW i \in DOMAIN AskedFor(r), NEW f \in DOMAIN AskedFor(r)[i], ~EndsOffer(r)
        PROVE  f # "set_point"
    <3>1. r.kind # "SET_GROUP_PARAMETERS"
      BY <2>1, <2>3 DEF EndsOffer
    <3>2. r.kind = "SET_SINGLE_PARAMETER"
      BY <3>1, <2>3 DEF AskedFor
    <3>3. r.parameter # "set_point"
      BY <2>1, <2>3, <3>2 DEF EndsOffer
    <3>4. AskedFor(r) = <<[g \in {r.parameter} |-> r.value]>>
      BY <3>2 DEF AskedFor
    <3>5. f = r.parameter
      BY <2>3, <3>4
    <3>6. QED
      BY <3>3, <3>5
  <2>4. ASSUME NEW i \in DOMAIN AskedFor(r), NEW f \in DOMAIN AskedFor(r)[i]
        PROVE  f \in Field /\ f \in Named(r)
    BY <2>2, <2>4, AskedIsNamed, FollowedFields DEF AreAsked
  <2> HIDE DEF h
  <2>5. QED
    BY <1>2, <2>1, <2>2, <2>3, <2>4 DEF AreAsked, h
<1>3. CASE /\ r.kind = "REPORT_NETWORK_STATUS"
           /\ h = [Does(ReportChanges(r), "HANDLER_OK") EXCEPT !.config = (r.st = 3)]
  <2>1. h.changes = ReportChanges(r) /\ h.result = "HANDLER_OK"
    BY <1>3 DEF Does
  <2>2. WellAsked(r)
    BY <1>3 DEF WellAsked
  <2>3. CASE r.st # 3 /\ control.set_point = PairingSetPoint
    <3> DEFINE change == [set_point |-> PairingSetPoint - 1]
    <3>1. ReportChanges(r) = <<change>>
      BY <2>3 DEF ReportChanges
    <3>2. PairingSetPoint - 1 \in Nat /\ "set_point" \in Field
      BY FollowedFields DEF PairingSetPoint
    <3>3. change = [f \in {"set_point"} |-> PairingSetPoint - 1]
      OBVIOUS
    <3>4. change \in Change /\ DOMAIN change = {"set_point"}
      BY <3>2, <3>3, ChangeOfOne
    <3> HIDE DEF change
    <3>5. <<change>> \in Seq(Change) /\ DOMAIN <<change>> = {1} /\ <<change>>[1] = change
      BY <3>4
    <3>6. "set_point" \in Named(r)
      BY <1>3, <2>3 DEF Named
    <3>7. EndsOffer(r)
      BY <1>3, <2>1, <2>3 DEF EndsOffer
    <3>8. \A i \in DOMAIN <<change>> : \A f \in DOMAIN <<change>>[i] : f = "set_point"
      BY <3>4, <3>5
    <3> HIDE DEF h
    <3>9. QED
      BY <1>3, <2>1, <2>2, <3>1, <3>2, <3>5, <3>6, <3>7, <3>8 DEF h
  <2>4. CASE ~(r.st # 3 /\ control.set_point = PairingSetPoint)
    <3>1. ReportChanges(r) = <<>>
      BY <2>4 DEF ReportChanges
    <3>2. \A i \in DOMAIN h.changes : FALSE
      BY <2>1, <3>1
    <3>3. h.changes \in Seq(Change)
      BY <2>1, <3>1
    <3>4. h.result = "HANDLER_OK" /\ r.kind = "REPORT_NETWORK_STATUS"
      BY <1>3, <2>1
    <3> HIDE DEF h
    <3>5. QED
      BY <2>2, <3>2, <3>3, <3>4 DEF h
  <2>5. QED
    BY <2>3, <2>4
<1>4. QED
  BY <1>1, <1>2, <1>3, HandlerOutcome
-----------------------------------------------------------------------------
(* The invariant                                                           *)

Types ==
  /\ control \in [Followed -> Nat] /\ \A f \in Followed : control[f] < Size(f)
  /\ job \in [Thread -> Seq(Change)]
  /\ DOMAIN copy = Thread /\ DOMAIN missed = Thread

\* A loaded byte is that of the change to be stored, and stale only where missed says.
Loaded(t) ==
  /\ job[t] # <<>> /\ DOMAIN copy[t] = ByteOfChange(Head(job[t]))
  /\ \A f \in DOMAIN copy[t] :
       /\ copy[t][f] \in Nat /\ copy[t][f] < Size(f)
       /\ copy[t][f] = control[f] \/ f \in missed[t]

Copies == \A t \in Thread : copy[t] = NoCopy \/ Loaded(t)

\* No key touches the byte of the set point.
KeysAside ==
  \A j \in DOMAIN job["main"] : \A f \in DOMAIN job["main"][j] :
    f \in Field /\ f # "set_point"

\* Pairing was offered: the set point is set, or will be by a change that waits.
Offered ==
  offered =>
    /\ \A j \in DOMAIN job["protocol"] : \A f \in DOMAIN job["protocol"][j] :
         f \in Field /\ (f = "set_point" => job["protocol"][j][f] = PairingSetPoint)
    /\ \/ control["set_point"] = PairingSetPoint
       \/ /\ pc = "loop"
          /\ \E j \in DOMAIN job["protocol"] : "set_point" \in DOMAIN job["protocol"][j]

Waits(change) == \E j \in DOMAIN job["protocol"] : job["protocol"][j] = change

\* The packet shows the change, or a key stored its byte.
Shown(change) ==
  \A f \in DOMAIN change : control[f] = change[f] % Size(f) \/ ByteOf(f) \in stored

Accepted == result = "HANDLER_OK" /\ request.kind # "REPORT_NETWORK_STATUS"

\* What a request asks for waits or is shown, and nothing else waits.
Answering ==
  pc = "answer" =>
    /\ request \in Request /\ (result = "HANDLER_OK" => WellAsked(request))
    /\ Accepted =>
         /\ \A j \in DOMAIN job["protocol"] :
              \E i \in DOMAIN AskedFor(request) :
                job["protocol"][j] = AskedFor(request)[i]
         /\ \A i \in DOMAIN AskedFor(request) :
              Waits(AskedFor(request)[i]) \/ Shown(AskedFor(request)[i])

\* Only what an accepted request names waits to be changed.
OnlyNamed ==
  pc = "answer" =>
    \A j \in DOMAIN job["protocol"] : \A f \in DOMAIN job["protocol"][j] :
      result = "HANDLER_OK" /\ f \in Named(request)

\* What became stale since the handler loaded its byte is in a byte that a key stored.
StaleByKey ==
  pc = "answer" /\ copy["protocol"] # NoCopy =>
    \A f \in Followed \cap missed["protocol"] : ByteOf(f) \in stored

IInv ==
  /\ Types /\ Copies /\ KeysAside /\ Offered /\ Answering
  /\ OnlyNamed /\ StaleByKey /\ NothingElseChanges

\* A job goes on with its tail.
LEMMA JobTail ==
  ASSUME NEW S, NEW s \in Seq(S), s # <<>>
  PROVE  /\ Head(s) \in S /\ Tail(s) \in Seq(S) /\ 1 \in DOMAIN s /\ s[1] = Head(s)
         /\ \A j \in DOMAIN Tail(s) : \E i \in DOMAIN s : Tail(s)[j] = s[i]
         /\ \A i \in DOMAIN s : s[i] = Head(s) \/ \E j \in DOMAIN Tail(s) : Tail(s)[j] = s[i]
<1>1. /\ Len(s) \in Nat /\ Len(s) >= 1 /\ DOMAIN s = 1 .. Len(s) /\ Head(s) = s[1]
      /\ Head(s) \in S /\ Tail(s) \in Seq(S) /\ Len(Tail(s)) = Len(s) - 1
      /\ DOMAIN Tail(s) = 1 .. Len(s) - 1
      /\ \A j \in 1 .. Len(s) - 1 : Tail(s)[j] = s[j + 1]
  BY HeadTailProperties
<1>2. ASSUME NEW j \in DOMAIN Tail(s)
      PROVE  \E i \in DOMAIN s : Tail(s)[j] = s[i]
  <2>1. j + 1 \in DOMAIN s /\ Tail(s)[j] = s[j + 1]
    BY <1>1
  <2>2. QED
    BY <2>1
<1>3. ASSUME NEW i \in DOMAIN s, s[i] # Head(s)
      PROVE  \E j \in DOMAIN Tail(s) : Tail(s)[j] = s[i]
  <2>1. i - 1 \in DOMAIN Tail(s) /\ Tail(s)[i - 1] = s[(i - 1) + 1] /\ (i - 1) + 1 = i
    BY <1>1, <1>3
  <2>2. QED
    BY <2>1
<1>4. QED
  BY <1>1, <1>2, <1>3

\* Before the two threads start no job is under way and the packet is the initial one.
LEMMA InitIInv == Init => IInv
<1> SUFFICES ASSUME Init PROVE IInv
  OBVIOUS
<1>1. /\ control = [f \in Followed |-> init_ac_state[f]]
      /\ pc = "toggle" /\ job = [t \in Thread |-> <<>>]
      /\ copy = [t \in Thread |-> NoCopy] /\ missed = [t \in Thread |-> {}]
      /\ ~offered
  BY DEF Init
<1>2. \A t \in Thread : job[t] = <<>> /\ copy[t] = NoCopy
  BY <1>1
<1>3. Types
  <2>1. \A f \in Field : init_ac_state[f] \in Nat /\ init_ac_state[f] < Size(f)
    <3> SUFFICES ASSUME NEW f \in Field
                 PROVE  init_ac_state[f] \in Nat /\ init_ac_state[f] < Size(f)
      OBVIOUS
    <3>1. CASE f = "set_point"
      BY <3>1 DEF init_ac_state, Size
    <3>2. CASE f = "vertical_swing_mode"
      BY <3>2 DEF init_ac_state, Size
    <3>3. CASE f = "fan_mode"
      BY <3>3 DEF init_ac_state, Size
    <3>4. CASE f = "horizontal_swing_mode"
      BY <3>4 DEF init_ac_state, Size
    <3>5. CASE f \notin {"set_point", "vertical_swing_mode", "fan_mode",
                         "horizontal_swing_mode"}
      <4>1. init_ac_state[f] \in {0, 1}
        BY <3>5 DEF init_ac_state
      <4>2. QED
        BY <4>1, SizeOfField
    <3>6. QED
      BY <3>1, <3>2, <3>3, <3>4, <3>5
  <2>2. control \in [Followed -> Nat] /\ \A f \in Followed : control[f] < Size(f)
    BY <1>1, <2>1, FollowedFields
  <2>3. QED
    BY <1>1, <2>2 DEF Types
<1>4. Copies
  BY <1>2 DEF Copies
<1>5. KeysAside
  BY <1>2 DEF KeysAside, Thread
<1>6. Offered /\ Answering /\ OnlyNamed /\ StaleByKey /\ NothingElseChanges
  BY <1>1 DEF Init, Offered, Answering, OnlyNamed, StaleByKey, NothingElseChanges
<1>7. QED
  BY <1>3, <1>4, <1>5, <1>6 DEF IInv

-----------------------------------------------------------------------------
(* Loads and stores                                                        *)

\* A thread is done with a change.
LEMMA JobGoesOn ==
  ASSUME IInv, NEW t \in Thread, job[t] # <<>>, job' = [job EXCEPT ![t] = Tail(@)]
  PROVE  /\ job' \in [Thread -> Seq(Change)] /\ KeysAside'
         /\ \A u \in Thread : u # t => job'[u] = job[u]
         /\ \A u \in Thread : \A j \in DOMAIN job'[u] :
              \E i \in DOMAIN job[u] : job'[u][j] = job[u][i]
         /\ \A i \in DOMAIN job[t] : \/ job[t][i] = Head(job[t])
                                     \/ \E j \in DOMAIN job'[t] : job'[t][j] = job[t][i]
         /\ job["protocol"] = <<>> => job'["protocol"] = <<>>
<1>1. job \in [Thread -> Seq(Change)] /\ job[t] \in Seq(Change)
  BY DEF IInv, Types
<1>2. /\ job'[t] = Tail(job[t]) /\ Tail(job[t]) \in Seq(Change)
      /\ \A u \in Thread : u # t => job'[u] = job[u]
  BY <1>1, JobTail
<1>3. job' \in [Thread -> Seq(Change)]
  BY <1>1, <1>2
<1>4. ASSUME NEW u \in Thread, NEW j \in DOMAIN job'[u]
      PROVE  \E i \in DOMAIN job[u] : job'[u][j] = job[u][i]
  BY <1>1, <1>2, <1>4, JobTail
<1>5. \A i \in DOMAIN job[t] : \/ job[t][i] = Head(job[t])
                              \/ \E j \in DOMAIN job'[t] : job'[t][j] = job[t][i]
  BY <1>1, <1>2, JobTail
<1>6. KeysAside'
  <2>1. "main" \in Thread
    BY DEF Thread
  <2>2. QED
    BY <1>4, <2>1 DEF IInv, KeysAside
<1>7. job["protocol"] = <<>> => job'["protocol"] = <<>>
  <2>1. "protocol" \in Thread
    BY DEF Thread
  <2>2. QED
    BY <1>2, <2>1
<1>8. QED
  BY <1>2, <1>3, <1>4, <1>5, <1>6, <1>7

\* What the head of a job is.
LEMMA HeadOfJob ==
  ASSUME IInv, NEW t \in Thread, job[t] # <<>>
  PROVE  /\ Head(job[t]) \in Change /\ 1 \in DOMAIN job[t] /\ job[t][1] = Head(job[t])
         /\ "set_point" \in ByteOfChange(Head(job[t])) <=> "set_point" \in DOMAIN Head(job[t])
         /\ \A f \in Followed \cap DOMAIN Head(job[t]) : f \in ByteOfChange(Head(job[t]))
<1> DEFINE change == Head(job[t])
<1>1. change \in Change /\ 1 \in DOMAIN job[t] /\ job[t][1] = change
  BY JobTail DEF IInv, Types
<1>2. \A f \in Followed \cap DOMAIN change : f \in ByteOfChange(change)
  BY DEF ByteOfChange
<1>3. DOMAIN change \subseteq Field /\ "set_point" \in Followed
  BY <1>1, ChangeParts, FollowedFields
<1>4. "set_point" \in ByteOfChange(change) => "set_point" \in DOMAIN change
  BY <1>3, SetPointByte DEF ByteOfChange
<1>5. QED
  BY <1>1, <1>2, <1>3, <1>4

\* The change that the protocol thread is about to make is asked for.
LEMMA HeadIsAsked ==
  ASSUME IInv, pc = "answer", Accepted, job["protocol"] # <<>>
  PROVE  /\ AreAsked(AskedFor(request))
         /\ \E i \in DOMAIN AskedFor(request) : Head(job["protocol"]) = AskedFor(request)[i]
         /\ DOMAIN Head(job["protocol"]) \subseteq Followed
<1>1. AreAsked(AskedFor(request))
  BY AskedIsChanges DEF IInv, Answering, Accepted
<1>2. 1 \in DOMAIN job["protocol"] /\ job["protocol"][1] = Head(job["protocol"])
  BY HeadOfJob DEF Thread
<1>3. \E i \in DOMAIN AskedFor(request) : Head(job["protocol"]) = AskedFor(request)[i]
  BY <1>2 DEF IInv, Answering
<1>4. QED
  BY <1>1, <1>3 DEF AreAsked

\* A change of fields that no byte followed has is passed over.
LEMMA SkipKeepsIInv ==
  ASSUME IInv, NEW t \in Thread, job[t] # <<>>, copy[t] = NoCopy, Skipped(t, Head(job[t])),
         job' = [job EXCEPT ![t] = Tail(@)],
         UNCHANGED <<control, pc, copy, request, result, changed, stored, missed, offered>>
  PROVE  IInv'
<1> DEFINE change == Head(job[t])
<1>1. /\ job' \in [Thread -> Seq(Change)] /\ KeysAside'
      /\ \A u \in Thread : u # t => job'[u] = job[u]
      /\ \A u \in Thread : \A j \in DOMAIN job'[u] :
           \E i \in DOMAIN job[u] : job'[u][j] = job[u][i]
      /\ \A i \in DOMAIN job[t] : \/ job[t][i] = change
                                  \/ \E j \in DOMAIN job'[t] : job'[t][j] = job[t][i]
      /\ job["protocol"] = <<>> => job'["protocol"] = <<>>
  BY JobGoesOn
<1>2. Types'
  BY <1>1 DEF IInv, Types
<1>3. Copies'
  <2>1. ASSUME NEW u \in Thread, copy'[u] # NoCopy
        PROVE  Loaded(u)'
    <3>1. u # t /\ Loaded(u) /\ job'[u] = job[u]
      BY <2>1, <1>1 DEF IInv, Copies
    <3>2. QED
      BY <3>1 DEF Loaded, ByteOfChange
  <2>2. QED
    BY <2>1 DEF Copies
<1>4. "protocol" \in Thread /\ "set_point" \in Followed
  BY FollowedFields DEF Thread
<1>5. OnlyNamed' /\ StaleByKey' /\ NothingElseChanges'
  BY <1>1, <1>4 DEF IInv, OnlyNamed, StaleByKey, NothingElseChanges
<1>6. Offered'
  <2> SUFFICES ASSUME offered
               PROVE  /\ \A j \in DOMAIN job'["protocol"] : \A f \in DOMAIN job'["protocol"][j] :
                           f \in Field
                           /\ (f = "set_point" => job'["protocol"][j][f] = PairingSetPoint)
                      /\ \/ control["set_point"] = PairingSetPoint
                         \/ /\ pc = "loop"
                            /\ \E j \in DOMAIN job'["protocol"] :
                                 "set_point" \in DOMAIN job'["protocol"][j]
    BY DEF Offered
  <2>1. \A j \in DOMAIN job'["protocol"] : \A f \in DOMAIN job'["protocol"][j] :
          f \in Field /\ (f = "set_point" => job'["protocol"][j][f] = PairingSetPoint)
    BY <1>1, <1>4 DEF IInv, Offered
  <2>2. ASSUME control["set_point"] # PairingSetPoint
        PROVE  /\ pc = "loop"
               /\ \E j \in DOMAIN job'["protocol"] : "set_point" \in DOMAIN job'["protocol"][j]
    <3>1. PICK i \in DOMAIN job["protocol"] :
            pc = "loop" /\ "set_point" \in DOMAIN job["protocol"][i]
      BY <2>2 DEF IInv, Offered
    <3>2. CASE t # "protocol"
      BY <3>1, <3>2, <1>1, <1>4
    <3>3. CASE t = "protocol"
      <4>1. "set_point" \notin DOMAIN change
        <5>1. ByteOfChange(change) = {}
          BY <3>1 DEF Skipped
        <5>2. QED
          BY <5>1, <1>4, HeadOfJob
      <4>2. QED
        BY <4>1, <3>1, <3>3, <1>1
    <3>4. QED
      BY <3>2, <3>3
  <2>3. QED
    BY <2>1, <2>2
<1>7. Answering'
  <2>1. ASSUME pc = "answer", Accepted, NEW i \in DOMAIN AskedFor(request)
        PROVE  (Waits(AskedFor(request)[i]) \/ Shown(AskedFor(request)[i]))'
    <3> DEFINE asked == AskedFor(request)[i]
    <3>1. CASE Shown(asked)
      BY <3>1 DEF Shown
    <3>2. CASE Waits(asked) /\ t # "protocol"
      BY <3>2, <1>1, <1>4 DEF Waits
    <3>3. CASE Waits(asked) /\ t = "protocol"
      <4>1. PICK k \in DOMAIN job["protocol"] : job["protocol"][k] = asked
        BY <3>3 DEF Waits
      <4>2. CASE \E j \in DOMAIN job'["protocol"] : job'["protocol"][j] = asked
        BY <4>2 DEF Waits
      <4>3. CASE asked = change
        <5>1. DOMAIN change \subseteq Followed /\ change \in Change
          BY <2>1, <3>3, HeadIsAsked, HeadOfJob
        <5>2. ASSUME NEW f \in DOMAIN change
              PROVE  control[f] = change[f] % Size(f)
          <6>1. change[f] \in Nat /\ f \in Followed /\ control[f] < Size(f)
            BY <5>1, ChangeParts DEF IInv, Types
          <6>2. control[f] = change[f]
            BY <5>1, <6>1, HeadOfJob DEF Skipped
          <6>3. QED
            BY <6>1, <6>2, SizeOfField
        <5>3. Shown(change)
          BY <5>2 DEF Shown
        <5>4. QED
          BY <4>3, <5>3, <3>1
      <4>4. QED
        BY <3>3, <4>1, <4>2, <4>3, <1>1
    <3>4. QED
      BY <2>1, <3>1, <3>2, <3>3 DEF IInv, Answering
  <2>2. ASSUME pc = "answer", Accepted, NEW j \in DOMAIN job'["protocol"]
        PROVE  \E i \in DOMAIN AskedFor(request) : job'["protocol"][j] = AskedFor(request)[i]
    <3>1. PICK k \in DOMAIN job["protocol"] : job'["protocol"][j] = job["protocol"][k]
      BY <2>2, <1>1, <1>4
    <3>2. QED
      BY <2>2, <3>1 DEF IInv, Answering
  <2>3. QED
    BY <2>1, <2>2 DEF IInv, Answering, Accepted
<1>8. QED
  BY <1>1, <1>2, <1>3, <1>5, <1>6, <1>7 DEF IInv

\* A thread loads the byte of its change.
LEMMA LoadKeepsIInv ==
  ASSUME IInv, NEW t \in Thread, Load(t)
  PROVE  IInv'
<1> DEFINE change == Head(job[t])
<1>1. /\ job[t] # <<>> /\ copy[t] = NoCopy
      /\ UNCHANGED <<control, pc, request, result, changed, stored, offered>>
  BY DEF Load
<1>2. CASE Skipped(t, change)
  <2>1. job' = [job EXCEPT ![t] = Tail(@)] /\ UNCHANGED <<copy, missed>>
    BY <1>2, Zenon DEF Load
  <2>2. QED
    BY <1>1, <1>2, <2>1, SkipKeepsIInv
<1>3. CASE ~Skipped(t, change)
  <2>1. /\ copy' = [copy EXCEPT ![t] = [f \in CopiedBy(change) |-> control[f]]]
        /\ missed' = [missed EXCEPT ![t] = {}] /\ job' = job
    BY <1>3, Zenon DEF Load
  <2>2. /\ copy'[t] = [f \in ByteOfChange(change) |-> control[f]]
        /\ \A u \in Thread : u # t => copy'[u] = copy[u] /\ missed'[u] = missed[u]
        /\ DOMAIN copy' = Thread /\ DOMAIN missed' = Thread
    BY <2>1 DEF IInv, Types, CopiedBy
  <2>3. Types'
    BY <1>1, <2>1, <2>2 DEF IInv, Types
  <2>4. ByteOfChange(change) \subseteq Followed
    BY DEF ByteOfChange
  <2>5. Loaded(t)'
    BY <1>1, <2>1, <2>2, <2>4 DEF IInv, Types, Loaded, ByteOfChange
  <2>6. Copies'
    <3>1. ASSUME NEW u \in Thread, u # t, copy'[u] # NoCopy
          PROVE  Loaded(u)'
      <4>1. Loaded(u) /\ copy'[u] = copy[u] /\ missed'[u] = missed[u]
        BY <3>1, <2>2 DEF IInv, Copies
      <4>2. QED
        BY <4>1, <1>1, <2>1 DEF Loaded, ByteOfChange
    <3>2. QED
      BY <3>1, <2>5 DEF Copies
  <2>7. KeysAside' /\ Offered' /\ OnlyNamed' /\ NothingElseChanges'
    BY <1>1, <2>1 DEF IInv, KeysAside, Offered, OnlyNamed, NothingElseChanges
  <2>8. Answering'
    BY <1>1, <2>1 DEF IInv, Answering, Accepted, Waits, Shown
  <2>9. StaleByKey'
    <3>1. "protocol" \in Thread /\ (t = "protocol" => missed'["protocol"] = {})
      BY <2>1 DEF IInv, Types, Thread
    <3>2. QED
      BY <3>1, <1>1, <2>2 DEF IInv, StaleByKey
  <2>10. QED
    BY <2>3, <2>6, <2>7, <2>8, <2>9 DEF IInv
<1>4. QED
  BY <1>2, <1>3

\* What a store does to the packet: what it changes is of the byte it loaded, is what
\* its change says, or is a field that changed since.
LEMMA StoredByte ==
  ASSUME IInv, NEW t \in Thread, Store(t)
  PROVE  /\ job[t] # <<>> /\ Loaded(t)
         /\ control' \in [Followed -> Nat] /\ \A f \in Followed : control'[f] < Size(f)
         /\ \A f \in Followed : control'[f] # control[f] => f \in ByteOfChange(Head(job[t]))
         /\ \A f \in Followed \cap DOMAIN Head(job[t]) :
              control'[f] = Head(job[t])[f] % Size(f)
         /\ \A f \in Followed : control'[f] # control[f] =>
              f \in DOMAIN Head(job[t]) \/ f \in missed[t]
<1> DEFINE change == Head(job[t])
<1>1. copy[t] # NoCopy
      /\ control' = [f \in Followed |->
                       IF f \in DOMAIN change THEN change[f] % Size(f)
                       ELSE IF f \in DOMAIN copy[t] THEN copy[t][f]
                       ELSE control[f]]
  BY DEF Store
<1>2. Loaded(t) /\ job[t] # <<>> /\ DOMAIN copy[t] = ByteOfChange(change)
  BY <1>1 DEF IInv, Copies, Loaded
<1>3. /\ \A f \in DOMAIN change : change[f] \in Nat
      /\ \A f \in Followed \cap DOMAIN change : f \in ByteOfChange(change)
  BY <1>2, HeadOfJob, ChangeParts
<1>4. ASSUME NEW f \in Followed
      PROVE  /\ control'[f] \in Nat /\ control'[f] < Size(f)
             /\ control'[f] # control[f] => f \in ByteOfChange(change)
             /\ f \in DOMAIN change => control'[f] = change[f] % Size(f)
             /\ control'[f] # control[f] => f \in DOMAIN change \/ f \in missed[t]
  <2>1. CASE f \in DOMAIN change
    <3>1. control'[f] = change[f] % Size(f)
      BY <1>1, <2>1
    <3>2. change[f] % Size(f) \in 0 .. Size(f) - 1 /\ Size(f) \in Nat
      BY <1>3, <2>1, SizeOfField
    <3>3. QED
      BY <3>1, <3>2, <1>3, <2>1
  <2>2. CASE f \notin DOMAIN change /\ f \in DOMAIN copy[t]
    <3>1. control'[f] = copy[t][f]
      BY <1>1, <2>2
    <3>2. QED
      BY <3>1, <2>2, <1>2 DEF Loaded
  <2>3. CASE f \notin DOMAIN change /\ f \notin DOMAIN copy[t]
    <3>1. control'[f] = control[f]
      BY <1>1, <2>3
    <3>2. QED
      BY <3>1, <2>3 DEF IInv, Types
  <2>4. QED
    BY <2>1, <2>2, <2>3
<1>5. control' \in [Followed -> Nat]
  <2>1. control' = [f \in Followed |-> control'[f]]
    BY <1>1
  <2>2. QED
    BY <2>1, <1>4
<1>6. QED
  BY <1>2, <1>4, <1>5

\* What a handler's store changes is named by its request, or was changed by a key after
\* the handler loaded the byte.
LEMMA StoreKeepsNamed ==
  ASSUME IInv, NEW t \in Thread, Store(t)
  PROVE  StaleByKey' /\ NothingElseChanges'
<1> DEFINE change == Head(job[t])
           Differ == {f \in Followed : control'[f] # control[f]}
<1>1. /\ job[t] # <<>> /\ copy[t] # NoCopy /\ DOMAIN copy[t] = ByteOfChange(change)
      /\ \A f \in Differ : f \in ByteOfChange(change)
      /\ \A f \in Differ : f \in DOMAIN change \/ f \in missed[t]
  BY StoredByte DEF Loaded, Store
<1>2. /\ copy' = [copy EXCEPT ![t] = NoCopy]
      /\ missed' = [u \in Thread |-> IF u = t THEN {} ELSE missed[u] \cup
                      {f \in DOMAIN copy[u] : control'[f] # control[f]}]
      /\ UNCHANGED <<pc, request, result>>
  BY DEF Store
<1>3. /\ t = "main" /\ pc = "answer" =>
           stored' = stored \cup {ByteOf(f) : f \in DOMAIN copy[t]}
      /\ ~(t = "main" /\ pc = "answer") => stored' = stored
      /\ t = "protocol" /\ pc = "answer" => changed' = changed \cup Differ
      /\ ~(t = "protocol" /\ pc = "answer") => changed' = changed
  BY DEF Store
<1>4. stored \subseteq stored' /\ t \in {"main", "protocol"} /\ "protocol" \in Thread
  BY <1>3 DEF Thread
<1>5. StaleByKey'
  <2> SUFFICES ASSUME pc = "answer", copy'["protocol"] # NoCopy,
                      NEW f \in Followed, f \in missed'["protocol"]
               PROVE  ByteOf(f) \in stored'
    BY <1>2 DEF StaleByKey
  <2>1. t = "main" /\ copy'["protocol"] = copy["protocol"]
    BY <1>2, <1>4 DEF IInv, Types
  <2>2. f \in missed["protocol"] \/ f \in Differ
    BY <1>2, <1>4, <2>1
  <2>3. CASE f \in missed["protocol"]
    BY <1>4, <2>1, <2>3 DEF IInv, StaleByKey
  <2>4. CASE f \in Differ
    BY <1>1, <1>3, <2>1, <2>4
  <2>5. QED
    BY <2>2, <2>3, <2>4
<1>6. NothingElseChanges'
  <2> SUFFICES ASSUME NEW f \in changed'
               PROVE  \/ result = "HANDLER_OK" /\ f \in Named(request)
                      \/ f \in Field /\ ByteOf(f) \in stored'
    BY <1>2 DEF NothingElseChanges
  <2>1. CASE f \in changed
    BY <1>4, <2>1 DEF IInv, NothingElseChanges
  <2>2. CASE f \notin changed
    <3>1. t = "protocol" /\ pc = "answer" /\ f \in Differ
      BY <1>3, <2>2
    <3>2. 1 \in DOMAIN job[t] /\ job[t][1] = change /\ f \in Field
      BY <1>1, <3>1, HeadOfJob, FollowedFields
    <3>3. CASE f \in DOMAIN change
      BY <3>1, <3>2, <3>3 DEF IInv, OnlyNamed
    <3>4. CASE f \in missed[t]
      BY <1>1, <1>4, <3>1, <3>2, <3>4 DEF IInv, StaleByKey
    <3>5. QED
      BY <1>1, <3>1, <3>3, <3>4
  <2>3. QED
    BY <2>1, <2>2
<1>7. QED
  BY <1>5, <1>6

\* A thread stores the byte of its change.
LEMMA StoreKeepsIInv ==
  ASSUME IInv, NEW t \in Thread, Store(t)
  PROVE  IInv'
<1> DEFINE change == Head(job[t])
<1>1. /\ job[t] # <<>> /\ Loaded(t) /\ DOMAIN copy[t] = ByteOfChange(change)
      /\ control' \in [Followed -> Nat] /\ \A f \in Followed : control'[f] < Size(f)
      /\ \A f \in Followed : control'[f] # control[f] => f \in ByteOfChange(change)
      /\ \A f \in Followed \cap DOMAIN change : control'[f] = change[f] % Size(f)
  BY StoredByte DEF Loaded
<1>2. /\ copy' = [copy EXCEPT ![t] = NoCopy] /\ job' = [job EXCEPT ![t] = Tail(@)]
      /\ missed' = [u \in Thread |-> IF u = t THEN {} ELSE missed[u] \cup
                      {f \in DOMAIN copy[u] : control'[f] # control[f]}]
      /\ UNCHANGED <<pc, request, result, offered>>
  BY DEF Store
<1>3. /\ t = "main" /\ pc = "answer" =>
           stored' = stored \cup {ByteOf(f) : f \in DOMAIN copy[t]}
      /\ ~(t = "main" /\ pc = "answer") => stored' = stored
  BY DEF Store
<1>4. /\ job' \in [Thread -> Seq(Change)] /\ KeysAside'
      /\ \A u \in Thread : u # t => job'[u] = job[u]
      /\ \A u \in Thread : \A j \in DOMAIN job'[u] :
           \E i \in DOMAIN job[u] : job'[u][j] = job[u][i]
      /\ \A i \in DOMAIN job[t] : \/ job[t][i] = change
                                  \/ \E j \in DOMAIN job'[t] : job'[t][j] = job[t][i]
      /\ job["protocol"] = <<>> => job'["protocol"] = <<>>
  BY <1>1, <1>2, JobGoesOn
<1>5. /\ copy'[t] = NoCopy /\ DOMAIN copy' = Thread /\ DOMAIN missed' = Thread
      /\ \A u \in Thread : u # t =>
           /\ copy'[u] = copy[u]
           /\ missed'[u] = missed[u] \cup {f \in DOMAIN copy[u] : control'[f] # control[f]}
  BY <1>2 DEF IInv, Types
<1>6. Types'
  BY <1>1, <1>4, <1>5 DEF Types
<1>7. Copies'
  <2>1. ASSUME NEW u \in Thread, copy'[u] # NoCopy
        PROVE  Loaded(u)'
    <3>1. u # t /\ Loaded(u) /\ copy'[u] = copy[u] /\ job'[u] = job[u]
          /\ missed'[u] = missed[u] \cup {f \in DOMAIN copy[u] : control'[f] # control[f]}
      BY <2>1, <1>4, <1>5 DEF IInv, Copies
    <3>2. QED
      BY <3>1 DEF Loaded, ByteOfChange
  <2>2. QED
    BY <2>1 DEF Copies
<1>8. "protocol" \in Thread /\ "set_point" \in Followed /\ t \in {"main", "protocol"}
  BY FollowedFields DEF Thread
<1>9. OnlyNamed' /\ StaleByKey' /\ NothingElseChanges'
  <2>1. OnlyNamed'
    BY <1>2, <1>4, <1>8 DEF IInv, OnlyNamed
  <2>2. QED
    BY <2>1, StoreKeepsNamed
<1>10. Offered'
  <2> SUFFICES ASSUME offered
               PROVE  /\ \A j \in DOMAIN job'["protocol"] : \A f \in DOMAIN job'["protocol"][j] :
                           f \in Field
                           /\ (f = "set_point" => job'["protocol"][j][f] = PairingSetPoint)
                      /\ \/ control'["set_point"] = PairingSetPoint
                         \/ /\ pc = "loop"
                            /\ \E j \in DOMAIN job'["protocol"] :
                                 "set_point" \in DOMAIN job'["protocol"][j]
    BY <1>2 DEF Offered
  <2>1. \A j \in DOMAIN job'["protocol"] : \A f \in DOMAIN job'["protocol"][j] :
          f \in Field /\ (f = "set_point" => job'["protocol"][j][f] = PairingSetPoint)
    BY <1>4, <1>8 DEF IInv, Offered
  <2>2. 1 \in DOMAIN job[t] /\ job[t][1] = change
        /\ ("set_point" \in ByteOfChange(change) <=> "set_point" \in DOMAIN change)
    BY <1>1, HeadOfJob
  <2>3. CASE "set_point" \in DOMAIN change
    <3>1. t = "protocol"
      BY <2>2, <2>3, <1>8 DEF IInv, KeysAside
    <3>2. change["set_point"] = PairingSetPoint
      BY <2>2, <2>3, <3>1 DEF IInv, Offered
    <3>3. control'["set_point"] = 14 % Size("set_point")
      BY <1>1, <1>8, <2>3, <3>2 DEF PairingSetPoint
    <3>4. Size("set_point") = 256
      BY DEF Size
    <3>5. control'["set_point"] = PairingSetPoint
      BY <3>3, <3>4 DEF PairingSetPoint
    <3>6. QED
      BY <2>1, <3>5
  <2>4. CASE "set_point" \notin DOMAIN change
    <3>1. control'["set_point"] = control["set_point"]
      BY <2>2, <2>4, <1>1, <1>8
    <3>2. ASSUME NEW i \in DOMAIN job["protocol"], "set_point" \in DOMAIN job["protocol"][i]
          PROVE  \E j \in DOMAIN job'["protocol"] : "set_point" \in DOMAIN job'["protocol"][j]
      <4>1. CASE t = "protocol"
        BY <4>1, <3>2, <2>4, <1>4
      <4>2. CASE t # "protocol"
        BY <4>2, <3>2, <1>4, <1>8
      <4>3. QED
        BY <4>1, <4>2
    <3>3. QED
      BY <2>1, <3>1, <3>2 DEF IInv, Offered
  <2>5. QED
    BY <2>3, <2>4
<1>11. Answering'
  <2>1. ASSUME pc = "answer", Accepted, NEW i \in DOMAIN AskedFor(request)
        PROVE  (Waits(AskedFor(request)[i]) \/ Shown(AskedFor(request)[i]))'
    <3> DEFINE asked == AskedFor(request)[i]
    <3>1. AreAsked(AskedFor(request)) /\ DOMAIN asked \subseteq Followed
      BY <2>1, AskedIsChanges DEF IInv, Answering, Accepted, AreAsked
    <3>2. request' = request
      BY <1>2
    <3>3. CASE t = "main"
      <4>1. Waits(asked) => Waits(asked)'
        BY <3>2, <3>3, <1>4, <1>8 DEF Waits
      <4>2. Shown(asked) => Shown(asked)'
        <5>1. ASSUME NEW f \in DOMAIN asked,
                     control[f] = asked[f] % Size(f) \/ ByteOf(f) \in stored
              PROVE  control'[f] = asked[f] % Size(f) \/ ByteOf(f) \in stored'
          BY <5>1, <3>1, <3>3, <2>1, <1>1, <1>3
        <5>2. QED
          BY <5>1, <3>2 DEF Shown
      <4>3. QED
        BY <4>1, <4>2, <2>1 DEF IInv, Answering
    <3>4. CASE t = "protocol"
      <4>1. PICK k \in DOMAIN AskedFor(request) : change = AskedFor(request)[k]
        BY <2>1, <3>4, <1>1, HeadIsAsked
      <4>2. DOMAIN change \subseteq Followed /\ stored' = stored
        BY <2>1, <3>4, <1>1, <1>3, HeadIsAsked
      <4>3. \A f \in DOMAIN change : control'[f] = change[f] % Size(f)
        BY <4>2, <1>1
      <4>4. CASE asked = change
        BY <4>3, <4>4, <3>2 DEF Shown
      <4>5. CASE Waits(asked) /\ asked # change
        BY <4>5, <3>2, <3>4, <1>4 DEF Waits
      <4>6. CASE Shown(asked) /\ asked # change
        <5>1. ASSUME NEW f \in DOMAIN asked
              PROVE  control'[f] = control[f]
          <6>1. f \in Followed
            BY <3>1
          <6>2. ASSUME NEW g \in DOMAIN change, ByteOf(f) = ByteOf(g)
                PROVE  FALSE
            <7>1. i = k
              BY <6>2, <4>1, <3>1 DEF AreAsked, Apart
            <7>2. QED
              BY <7>1, <4>1, <4>6
          <6>3. f \notin ByteOfChange(change)
            BY <6>2 DEF ByteOfChange
          <6>4. QED
            BY <6>1, <6>3, <1>1
        <5>2. QED
          BY <5>1, <4>2, <4>6, <3>2 DEF Shown
      <4>7. QED
        BY <4>4, <4>5, <4>6, <2>1 DEF IInv, Answering
    <3>5. QED
      BY <3>3, <3>4, <1>8
  <2>2. ASSUME pc = "answer", Accepted, NEW j \in DOMAIN job'["protocol"]
        PROVE  \E i \in DOMAIN AskedFor(request) : job'["protocol"][j] = AskedFor(request)[i]
    <3>1. PICK k \in DOMAIN job["protocol"] : job'["protocol"][j] = job["protocol"][k]
      BY <2>2, <1>4, <1>8
    <3>2. QED
      BY <2>2, <3>1 DEF IInv, Answering
  <2>3. QED
    BY <2>1, <2>2, <1>2 DEF IInv, Answering, Accepted
<1>12. QED
  BY <1>4, <1>6, <1>7, <1>9, <1>10, <1>11 DEF IInv
-----------------------------------------------------------------------------
(* Steps that start a job                                                  *)

\* A thread starts a job only when it has none.
LEMMA StartKeepsCopies ==
  ASSUME IInv, \A t \in Thread : job'[t] = job[t] \/ job[t] = <<>>,
         UNCHANGED <<control, copy, missed>>
  PROVE  Copies'
<1>1. ASSUME NEW t \in Thread, copy'[t] # NoCopy
      PROVE  Loaded(t)'
  <2>1. Loaded(t) /\ job'[t] = job[t]
    BY <1>1 DEF IInv, Copies, Loaded
  <2>2. QED
    BY <2>1 DEF Loaded, ByteOfChange
<1>2. QED
  BY <1>1 DEF Copies

\* The protocol thread takes up changes, if it has none, and goes on to a block in which
\* it answers nothing.
LEMMA BlockKeepsIInv ==
  ASSUME IInv, job["protocol"] = <<>>, pc' # "answer", NEW changes \in Seq(Change),
         job' = [job EXCEPT !["protocol"] = changes], UNCHANGED <<control, copy, missed>>,
         changed' = {} \/ UNCHANGED <<request, result, changed, stored>>,
         offered' =>
           /\ \A i \in DOMAIN changes : \A f \in DOMAIN changes[i] :
                f \in Field /\ (f = "set_point" => changes[i][f] = PairingSetPoint)
           /\ \/ control["set_point"] = PairingSetPoint
              \/ pc' = "loop" /\ \E i \in DOMAIN changes : "set_point" \in DOMAIN changes[i]
  PROVE  IInv'
<1>1. /\ job'["protocol"] = changes /\ job'["main"] = job["main"]
      /\ job' \in [Thread -> Seq(Change)]
  BY DEF IInv, Types, Thread
<1>2. Types'
  BY <1>1 DEF IInv, Types
<1>3. Copies'
  BY <1>1, StartKeepsCopies DEF Thread
<1>4. KeysAside'
  BY <1>1 DEF IInv, KeysAside
<1>5. Offered'
  BY <1>1 DEF Offered
<1>6. Answering' /\ OnlyNamed' /\ StaleByKey' /\ NothingElseChanges'
  BY DEF IInv, Answering, OnlyNamed, StaleByKey, NothingElseChanges
<1>7. QED
  BY <1>2, <1>3, <1>4, <1>5, <1>6 DEF IInv

\* An offer that stands when no change waits is in the packet.
LEMMA OfferStands ==
  ASSUME IInv, job["protocol"] = <<>>, offered
  PROVE  control["set_point"] = PairingSetPoint
BY DEF IInv, Offered

\* No change at all is a job too.
LEMMA NoJob ==
  ASSUME IInv, job["protocol"] = <<>>
  PROVE  /\ <<>> \in Seq(Change) /\ DOMAIN <<>> = {}
         /\ job = [job EXCEPT !["protocol"] = <<>>]
BY DEF IInv, Types, Thread

\* preloop() carries out the power key.
LEMMA TogglePowerKeepsIInv ==
  ASSUME IInv, TogglePower
  PROVE  IInv'
<1> DEFINE value == IF control.ac_power = 1 THEN 0 ELSE 1
           change == [ac_power |-> value]
<1>1. /\ job["protocol"] = <<>> /\ pc' = "pairing"
      /\ UNCHANGED <<control, copy, request, result, changed, stored, missed, offered>>
      /\ job' = [job EXCEPT !["protocol"] = <<change>>] \/ job' = job
  BY DEF TogglePower, Block, history
<1>2. offered' => control["set_point"] = PairingSetPoint
  BY <1>1, OfferStands
<1>3. CASE job' = [job EXCEPT !["protocol"] = <<change>>]
  <2>1. value \in Nat
    OBVIOUS
  <2> HIDE DEF value
  <2>2. change = [f \in {"ac_power"} |-> value] /\ "ac_power" \in Field
    BY FollowedFields
  <2>3. change \in Change /\ DOMAIN change = {"ac_power"}
    BY <2>1, <2>2, ChangeOfOne
  <2> HIDE DEF change
  <2>4. <<change>> \in Seq(Change) /\ DOMAIN <<change>> = {1} /\ <<change>>[1] = change
    BY <2>3
  <2>5. \A i \in DOMAIN <<change>> : \A f \in DOMAIN <<change>>[i] :
          f \in Field /\ f # "set_point"
    BY <2>2, <2>3, <2>4
  <2>6. QED
    BY <1>1, <1>2, <1>3, <2>4, <2>5, BlockKeepsIInv
<1>4. CASE job' = job
  <2>1. job' = [job EXCEPT !["protocol"] = <<>>]
    BY <1>1, <1>4, NoJob
  <2>2. QED
    BY <1>1, <1>2, <2>1, NoJob, BlockKeepsIInv
<1>5. QED
  BY <1>1, <1>3, <1>4

\* preloop() carries out the pairing key.
LEMMA EnterPairingKeepsIInv ==
  ASSUME IInv, EnterPairing
  PROVE  IInv'
<1>1. /\ job["protocol"] = <<>> /\ pc' = "loop"
      /\ UNCHANGED <<control, copy, request, result, changed, stored, missed>>
  BY DEF EnterPairing, Block
<1>2. CASE _pairing_mode /\ ~config_mode
  <2>1. job' = [job EXCEPT !["protocol"] = PairingChanges]
    BY <1>2, Zenon DEF EnterPairing
  <2>2. PairingValue("set_point") = PairingSetPoint
    BY DEF PairingValue
  <2>3. QED
    BY <1>1, <2>1, <2>2, PairingIsChanges, BlockKeepsIInv
<1>3. CASE ~(_pairing_mode /\ ~config_mode)
  <2>1. UNCHANGED <<job, offered>>
    BY <1>3, Zenon DEF EnterPairing
  <2>2. job' = [job EXCEPT !["protocol"] = <<>>]
    BY <1>1, <2>1, NoJob
  <2>3. offered' => control["set_point"] = PairingSetPoint
    BY <1>1, <2>1, OfferStands
  <2>4. QED
    BY <1>1, <2>2, <2>3, NoJob, BlockKeepsIInv
<1>4. QED
  BY <1>2, <1>3

\* loop() ends without a message, or with its answer.
LEMMA TurnsKeepIInv ==
  ASSUME IInv, NothingCame \/ SendAnswer
  PROVE  IInv'
<1>1. /\ job["protocol"] = <<>> /\ pc' = "toggle"
      /\ UNCHANGED <<control, copy, job, missed, offered>>
      /\ changed' = {} \/ UNCHANGED <<request, result, changed, stored>>
  BY DEF NothingCame, SendAnswer, Block, history
<1>2. job' = [job EXCEPT !["protocol"] = <<>>]
  BY <1>1, NoJob
<1>3. offered' => control["set_point"] = PairingSetPoint
  BY <1>1, OfferStands
<1>4. QED
  BY <1>1, <1>2, <1>3, NoJob, BlockKeepsIInv

\* loop() takes a message and starts on what it asks for.
LEMMA TakeKeepsIInv ==
  ASSUME IInv, NEW r \in Request, Take(r)
  PROVE  IInv'
<1> DEFINE changes == Handle(r).changes
<1>1. /\ job["protocol"] = <<>> /\ pc' = "answer" /\ request' = r
      /\ result' = Handle(r).result /\ job' = [job EXCEPT !["protocol"] = changes]
      /\ changed' = IF Handle(r).config # config_mode THEN {"config_mode"} ELSE {}
      /\ offered' = (offered /\ ~EndsOffer(r))
      /\ UNCHANGED <<control, copy, missed>>
  BY DEF Take, Block
<1>2. /\ changes \in Seq(Change)
      /\ result' = "HANDLER_OK" => WellAsked(r)
      /\ result' = "HANDLER_OK" /\ r.kind # "REPORT_NETWORK_STATUS" => changes = AskedFor(r)
      /\ Handle(r).config # config_mode =>
           result' = "HANDLER_OK" /\ r.kind = "REPORT_NETWORK_STATUS"
      /\ \A i \in DOMAIN changes : \A f \in DOMAIN changes[i] :
           /\ f \in Field /\ result' = "HANDLER_OK" /\ f \in Named(r)
           /\ ~EndsOffer(r) => f # "set_point"
  BY <1>1, TakenIsChanges
<1> HIDE DEF changes
<1>3. /\ job'["protocol"] = changes /\ job'["main"] = job["main"]
      /\ job' \in [Thread -> Seq(Change)]
  BY <1>1, <1>2 DEF IInv, Types, Thread
<1>4. Types'
  BY <1>1, <1>3 DEF IInv, Types
<1>5. Copies'
  BY <1>1, <1>3, StartKeepsCopies DEF Thread
<1>6. KeysAside'
  BY <1>3 DEF IInv, KeysAside
<1>7. Offered'
  <2>1. ASSUME offered, ~EndsOffer(r)
        PROVE  control'["set_point"] = PairingSetPoint
    BY <2>1, <1>1, OfferStands
  <2>2. QED
    BY <2>1, <1>1, <1>2, <1>3 DEF Offered
<1>8. OnlyNamed' /\ StaleByKey' /\ NothingElseChanges'
  <2>1. OnlyNamed'
    BY <1>1, <1>2, <1>3 DEF OnlyNamed
  <2>2. copy'["protocol"] = NoCopy
    BY <1>1 DEF IInv, Copies, Loaded, Thread
  <2>3. Handle(r).config # config_mode => result' = "HANDLER_OK" /\ "config_mode" \in Named(r)
    BY <1>2 DEF Named
  <2>4. NothingElseChanges'
    BY <1>1, <2>3 DEF NothingElseChanges
  <2>5. QED
    BY <2>1, <2>2, <2>4 DEF StaleByKey
<1>9. Answering'
  BY <1>1, <1>2, <1>3 DEF Answering, Accepted, Waits
<1>10. QED
  BY <1>4, <1>5, <1>6, <1>7, <1>8, <1>9 DEF IInv

\* A key starts changes of other bytes than that of the set point.
LEMMA KeyJobKeepsIInv ==
  ASSUME IInv, job["main"] = <<>>, NEW changes \in Seq(Change),
         \A i \in DOMAIN changes : \A f \in DOMAIN changes[i] : f \in Field /\ f # "set_point",
         job' = [job EXCEPT !["main"] = changes],
         UNCHANGED <<control, pc, copy, request, result, changed, stored, missed, offered>>
  PROVE  IInv'
<1>1. /\ job'["main"] = changes /\ job'["protocol"] = job["protocol"]
      /\ job' \in [Thread -> Seq(Change)]
  BY DEF IInv, Types, Thread
<1>2. Types'
  BY <1>1 DEF IInv, Types
<1>3. Copies'
  BY <1>1, StartKeepsCopies DEF Thread
<1>4. KeysAside'
  BY <1>1 DEF KeysAside
<1>5. Offered' /\ OnlyNamed' /\ StaleByKey' /\ NothingElseChanges'
  BY <1>1 DEF IInv, Offered, OnlyNamed, StaleByKey, NothingElseChanges
<1>6. Answering'
  BY <1>1 DEF IInv, Answering, Accepted, Waits, Shown
<1>7. QED
  BY <1>2, <1>3, <1>4, <1>5, <1>6 DEF IInv

\* What IInv speaks of stays.
LEMMA OthersKeepIInv ==
  ASSUME IInv, UNCHANGED <<control, pc, job, copy, request, result, changed, stored, missed,
                             offered>>
  PROVE  IInv'
<1>1. /\ Types' /\ KeysAside' /\ Offered'
      /\ OnlyNamed' /\ StaleByKey' /\ NothingElseChanges'
  BY DEF IInv, Types, KeysAside, Offered, OnlyNamed, StaleByKey, NothingElseChanges
<1>2. Copies'
  BY StartKeepsCopies
<1>3. Answering'
  BY DEF IInv, Answering, Accepted, Waits, Shown
<1>4. QED
  BY <1>1, <1>2, <1>3 DEF IInv

\* A key of the main thread.
LEMMA KeyKeepsIInv ==
  ASSUME IInv, Key
  PROVE  IInv'
<1>1. /\ job["main"] = <<>>
      /\ UNCHANGED <<control, pc, copy, request, result, changed, stored, missed, offered>>
  BY DEF Key, history
<1>2. \A f \in {"quiet_mode", "health_mode"} : f \in Field /\ 1 - control[f] \in Nat
  <2>1. /\ "quiet_mode" \in Followed /\ "health_mode" \in Followed
        /\ Size("quiet_mode") = 2 /\ Size("health_mode") = 2
    BY FollowedFields DEF Size
  <2>2. /\ control["quiet_mode"] \in 0 .. Size("quiet_mode") - 1
        /\ control["health_mode"] \in 0 .. Size("health_mode") - 1
    BY <2>1, SizeOfField DEF IInv, Types
  <2>3. 1 - control["quiet_mode"] \in Nat /\ 1 - control["health_mode"] \in Nat
    BY <2>1, <2>2
  <2>4. "quiet_mode" \in Field /\ "health_mode" \in Field
    BY <2>1, FollowedFields
  <2>5. QED
    BY <2>3, <2>4
<1>3. ASSUME NEW f \in Field, NEW n \in Nat, f # "set_point",
             job' = [job EXCEPT !["main"] = <<[g \in {f} |-> n]>>]
      PROVE  IInv'
  <2> DEFINE change == [g \in {f} |-> n]
  <2>1. change \in Change /\ DOMAIN change = {f}
    BY ChangeOfOne
  <2> HIDE DEF change
  <2>2. <<change>> \in Seq(Change) /\ DOMAIN <<change>> = {1} /\ <<change>>[1] = change
    BY <2>1
  <2>3. job' = [job EXCEPT !["main"] = <<change>>]
    BY <1>3 DEF change
  <2>4. \A i \in DOMAIN <<change>> : \A g \in DOMAIN <<change>>[i] :
          g \in Field /\ g # "set_point"
    BY <1>3, <2>1, <2>2
  <2>5. QED
    BY <1>1, <2>2, <2>3, <2>4, KeyJobKeepsIInv
<1>4. CASE PressPower \/ PressPairing
  BY <1>1, <1>4, OthersKeepIInv DEF PressPower, PressPairing
<1>5. CASE PressQuiet
  <2>1. job' = [job EXCEPT !["main"] = <<[quiet_mode |-> 1 - control.quiet_mode]>>]
    BY <1>5 DEF PressQuiet, KeyJob
  <2> DEFINE n == 1 - control["quiet_mode"]
  <2>2. [quiet_mode |-> 1 - control.quiet_mode] = [g \in {"quiet_mode"} |-> n] /\ n \in Nat
        /\ "quiet_mode" \in Field
    BY <1>2
  <2> HIDE DEF n
  <2>3. QED
    BY <2>1, <2>2, <1>3
<1>6. CASE PressHealth
  <2>1. job' = [job EXCEPT !["main"] = <<[health_mode |-> 1 - control.health_mode]>>]
    BY <1>6 DEF PressHealth, KeyJob
  <2> DEFINE n == 1 - control["health_mode"]
  <2>2. [health_mode |-> 1 - control.health_mode] = [g \in {"health_mode"} |-> n] /\ n \in Nat
        /\ "health_mode" \in Field
    BY <1>2
  <2> HIDE DEF n
  <2>3. QED
    BY <2>1, <2>2, <1>3
<1>7. CASE PressClean
  <2> DEFINE first == [self_cleaning_status |-> 0]
             second == [steri_clean |-> 0]
  <2>1. job' = [job EXCEPT !["main"] = <<first, second>>]
    BY <1>7 DEF PressClean, KeyJob
  <2>2. /\ first = [f \in {"self_cleaning_status"} |-> 0] /\ "self_cleaning_status" \in Field
        /\ second = [f \in {"steri_clean"} |-> 0] /\ "steri_clean" \in Field
    BY FollowedFields
  <2>3. /\ [f \in {"self_cleaning_status"} |-> 0] \in Change
        /\ DOMAIN [f \in {"self_cleaning_status"} |-> 0] = {"self_cleaning_status"}
    <3>1. 0 \in Nat /\ "self_cleaning_status" \in Field
      BY <2>2
    <3>2. QED
      BY ONLY <3>1, ChangeOfOne
  <2>4. /\ [f \in {"steri_clean"} |-> 0] \in Change
        /\ DOMAIN [f \in {"steri_clean"} |-> 0] = {"steri_clean"}
    <3>1. 0 \in Nat /\ "steri_clean" \in Field
      BY <2>2
    <3>2. QED
      BY ONLY <3>1, ChangeOfOne
  <2>5. /\ first \in Change /\ DOMAIN first = {"self_cleaning_status"}
        /\ second \in Change /\ DOMAIN second = {"steri_clean"}
    BY <2>2, <2>3, <2>4
  <2> HIDE DEF first, second
  <2>6. /\ <<first, second>> \in Seq(Change) /\ DOMAIN <<first, second>> = {1, 2}
        /\ <<first, second>>[1] = first /\ <<first, second>>[2] = second
    BY <2>5
  <2>7. \A i \in DOMAIN <<first, second>> : \A f \in DOMAIN <<first, second>>[i] :
          f \in Field /\ f # "set_point"
    BY <2>2, <2>5, <2>6
  <2>8. QED
    BY <1>1, <2>1, <2>6, <2>7, KeyJobKeepsIInv
<1>8. QED
  BY <1>4, <1>5, <1>6, <1>7 DEF Key

-----------------------------------------------------------------------------
(* The theorems                                                            *)

\* When every change of a command is shown, so is each value, as far as its bits fit.
LEMMA AskedIsShown ==
  ASSUME NEW r \in Request, WellAsked(r), NEW f \in DOMAIN Asked(r),
         \A i \in DOMAIN AskedFor(r) : Shown(AskedFor(r)[i])
  PROVE  /\ control[f] = Asked(r)[f] % Size(f) \/ ByteOf(f) \in stored
         /\ Asked(r)[f] \in Nat /\ (f \in Untested \/ Asked(r)[f] < Size(f))
<1>1. CASE r.kind = "SET_GROUP_PARAMETERS"
  <2> DEFINE b == ByteOf(f)
             In == {g \in Followed : ByteOf(g) = b}
  <2>1. Asked(r) = r.group /\ AskedFor(r) = GroupChanges(r)
    BY <1>1 DEF Asked, AskedFor
  <2>2. f \in Followed /\ r.group[f] \in Nat /\ r.group[f] < Size(f)
    BY <1>1, <2>1, RequestParts
  <2>3. b \in DOMAIN Bytes
    BY <2>2, FieldInByte, FollowedFields
  <2>4. b \in DOMAIN AskedFor(r) /\ AskedFor(r)[b] = [g \in In |-> r.group[g]]
    BY <2>1, <2>3 DEF GroupChanges
  <2>5. f \in DOMAIN AskedFor(r)[b] /\ AskedFor(r)[b][f] = r.group[f]
    BY <2>2, <2>4
  <2> HIDE DEF b
  <2>6. Shown(AskedFor(r)[b])
    BY <2>4
  <2>7. QED
    BY <2>1, <2>2, <2>5, <2>6 DEF Shown
<1>2. CASE r.kind = "SET_SINGLE_PARAMETER"
  <2> DEFINE change == [g \in {r.parameter} |-> r.value]
  <2>1. Asked(r) = change /\ AskedFor(r) = <<change>>
    BY <1>2 DEF Asked, AskedFor
  <2>2. f = r.parameter /\ change[f] = r.value /\ f \in DOMAIN change
    BY <2>1
  <2>3. r.value \in Nat /\ (f \in Untested \/ r.value <= 1)
    BY <1>2, <2>2, RequestParts DEF WellAsked
  <2>4. r.value <= 1 => r.value < Size(f)
    BY <2>3, SizeOfField
  <2> HIDE DEF change
  <2>5. 1 \in DOMAIN AskedFor(r) /\ AskedFor(r)[1] = change
    BY <2>1
  <2>6. Shown(change)
    BY <2>5
  <2>7. QED
    BY <2>1, <2>2, <2>3, <2>4, <2>6 DEF Shown
<1>3. CASE r.kind \notin {"SET_GROUP_PARAMETERS", "SET_SINGLE_PARAMETER"}
  BY <1>3 DEF Asked
<1>4. QED
  BY <1>1, <1>2, <1>3

\* Every step keeps IInv.
LEMMA NextKeepsIInv ==
  ASSUME IInv, [Next]_vars
  PROVE  IInv'
<1>1. CASE \E t \in Thread : Load(t) \/ Store(t)
  BY <1>1, LoadKeepsIInv, StoreKeepsIInv
<1>2. CASE TogglePower \/ EnterPairing \/ NothingCame \/ SendAnswer
  BY <1>2, TogglePowerKeepsIInv, EnterPairingKeepsIInv, TurnsKeepIInv
<1>3. CASE \E r \in Request : Take(r)
  BY <1>3, TakeKeepsIInv
<1>4. CASE Key
  BY <1>4, KeyKeepsIInv
<1>5. CASE UNCHANGED vars
  BY <1>5, OthersKeepIInv DEF vars, history
<1>6. QED
  BY <1>1, <1>2, <1>3, <1>4, <1>5 DEF Next

\* The control packet, the jobs on it and what is known of them agree, whatever requests
\* and keys come and however loads and stores of the two threads fall.
THEOREM ControlInvariant == Spec => []IInv
<1>1. Init => IInv
  BY InitIInv
<1>2. IInv /\ [Next]_vars => IInv'
  BY NextKeepsIInv
<1>3. QED
  BY <1>1, <1>2, PTL DEF Spec

\* TypeOK: a value that the peer sends is never stored in more bits than its field has,
\* and no load reaches over the end of a byte.
THEOREM TypesAlwaysHold == Spec => []TypeOK
<1>1. ASSUME IInv PROVE TypeOK
  <2>1. \A f \in Followed : control[f] \in 0 .. Size(f) - 1
    BY <1>1, SizeOfField DEF IInv, Types
  <2>2. ASSUME NEW t \in Thread, copy[t] # NoCopy
        PROVE  \E b \in DOMAIN Bytes : DOMAIN copy[t] \subseteq Bytes[b]
    <3> DEFINE change == Head(job[t])
    <3>1. job[t] # <<>> /\ DOMAIN copy[t] = ByteOfChange(change)
      BY <1>1, <2>2 DEF IInv, Copies, Loaded
    <3>2. OneByte(change)
      BY <1>1, <3>1, HeadOfJob, ChangeParts
    <3>3. ASSUME NEW f \in DOMAIN copy[t], NEW g \in DOMAIN copy[t]
          PROVE  ByteOf(f) = ByteOf(g) /\ f \in Field
      BY <3>1, <3>2, <3>3, FollowedFields DEF ByteOfChange, OneByte
    <3>4. CASE DOMAIN copy[t] = {}
      <4>1. 1 \in DOMAIN Bytes
        BY DEF Bytes
      <4>2. QED
        BY <3>4, <4>1
    <3>5. CASE DOMAIN copy[t] # {}
      <4>1. PICK f \in DOMAIN copy[t] : TRUE
        BY <3>5
      <4>2. ByteOf(f) \in DOMAIN Bytes /\ DOMAIN copy[t] \subseteq Bytes[ByteOf(f)]
        BY <4>1, <3>3, FieldInByte
      <4>3. QED
        BY <4>2
    <3>6. QED
      BY <3>4, <3>5
  <2>3. QED
    BY <2>1, <2>2 DEF TypeOK
<1>2. QED
  BY <1>1, ControlInvariant, PTL

\* NothingElseChanges: whatever its tests and stores come to, and whatever became stale in
\* between, a handler changes only what an accepted request names, or a byte that a key
\* stored while the request was handled.
THEOREM HandlersChangeNothingElse == Spec => []NothingElseChanges
<1>1. IInv => NothingElseChanges
  BY DEF IInv
<1>2. QED
  BY <1>1, ControlInvariant, PTL

\* PairingOffered: from the pairing key's last change on the packet has the pairing set
\* point, until the peer ends the offer: no key and no stale byte takes it back.
THEOREM PairingStaysOffered == Spec => []PairingOffered
<1>1. ASSUME IInv PROVE PairingOffered
  <2>1. ASSUME offered, pc # "loop" \/ job["protocol"] = <<>>
        PROVE  control["set_point"] = PairingSetPoint
    BY <1>1, <2>1 DEF IInv, Offered
  <2>2. QED
    BY <2>1 DEF PairingOffered
<1>2. QED
  BY <1>1, ControlInvariant, PTL

\* AnswerShowsRequest: the status that answers a command shows each of its values, unless
\* a key stored the same byte while the command was carried out.
THEOREM AnswersShowRequests == Spec => AnswerShowsRequest
<1> DEFINE AllShown == \A f \in DOMAIN Asked(request) :
                         Shows(f, Asked(request)[f]) \/ ByteOf(f) \in stored
           A == pc = "answer" /\ pc' = "toggle" /\ result = "HANDLER_OK" => AllShown
<1>1. ASSUME IInv, [Next]_vars, pc = "answer", pc' = "toggle", result = "HANDLER_OK"
      PROVE  AllShown
  <2>1. job["protocol"] = <<>>
    <3>1. CASE \E t \in Thread : Load(t) \/ Store(t)
      <4>1. pc' = pc
        BY <3>1 DEF Load, Store
      <4>2. QED
        BY <4>1, <1>1
    <3>2. CASE TogglePower \/ EnterPairing \/ NothingCame \/ SendAnswer
      BY <3>2 DEF TogglePower, EnterPairing, NothingCame, SendAnswer, Block
    <3>3. CASE \E r \in Request : Take(r)
      BY <3>3 DEF Take, Block
    <3>4. CASE Key \/ UNCHANGED vars
      <4>1. pc' = pc
        BY <3>4 DEF Key, vars
      <4>2. QED
        BY <4>1, <1>1
    <3>5. QED
      BY <1>1, <3>1, <3>2, <3>3, <3>4 DEF Next
  <2>2. request \in Request /\ WellAsked(request)
    BY <1>1 DEF IInv, Answering
  <2>3. CASE request.kind = "REPORT_NETWORK_STATUS"
    BY <2>3 DEF Asked
  <2>4. CASE request.kind # "REPORT_NETWORK_STATUS"
    <3>1. \A i \in DOMAIN AskedFor(request) : Shown(AskedFor(request)[i])
      BY <1>1, <2>1, <2>4 DEF IInv, Answering, Accepted, Waits
    <3>2. ASSUME NEW f \in DOMAIN Asked(request)
          PROVE  Shows(f, Asked(request)[f]) \/ ByteOf(f) \in stored
      <4>1. /\ control[f] = Asked(request)[f] % Size(f) \/ ByteOf(f) \in stored
            /\ Asked(request)[f] \in Nat
            /\ f \in Untested \/ Asked(request)[f] < Size(f)
        BY <2>2, <3>1, AskedIsShown
      <4>2. QED
        BY <4>1, SizeOfField DEF Shows, Untested
    <3>3. QED
      BY <3>2
  <2>5. QED
    BY <2>3, <2>4
<1>2. IInv /\ [Next]_vars => [A]_vars
  BY <1>1
<1>3. QED
  BY <1>2, ControlInvariant, PTL DEF Spec, AnswerShowsRequest

\* LossNeedsOneByte: a field changes only by a store of a change of it, or of one to
\* its byte after both threads changed that byte: nothing else is ever lost.
THEOREM LossesNeedOneByte == Spec => LossNeedsOneByte
<1> DEFINE ByStore(t, f) ==
             /\ job[t] # <<>> /\ copy[t] # NoCopy /\ copy'[t] = NoCopy
             /\ \/ f \in DOMAIN Head(job[t])
                \/ f \in missed[t] /\ \E g \in DOMAIN Head(job[t]) : ByteOf(g) = ByteOf(f)
           A == \A f \in Followed : control'[f] # control[f] => \E t \in Thread : ByStore(t, f)
<1>1. ASSUME IInv, NEW t \in Thread, Store(t), NEW f \in Followed, control'[f] # control[f]
      PROVE  ByStore(t, f)
  <2>1. /\ job[t] # <<>> /\ f \in ByteOfChange(Head(job[t]))
        /\ f \in DOMAIN Head(job[t]) \/ f \in missed[t]
    BY <1>1, StoredByte
  <2>2. copy[t] # NoCopy /\ copy'[t] = NoCopy
    BY <1>1 DEF Store, IInv, Types
  <2>3. \E g \in DOMAIN Head(job[t]) : ByteOf(g) = ByteOf(f)
    BY <2>1 DEF ByteOfChange
  <2>4. QED
    BY <2>1, <2>2, <2>3
<1>2. ASSUME [Next]_vars, \A t \in Thread : ~Store(t)
      PROVE  control' = control
  <2>1. CASE \E t \in Thread : Load(t)
    BY <2>1 DEF Load
  <2>2. CASE TogglePower \/ EnterPairing \/ NothingCame \/ SendAnswer
    BY <2>2 DEF TogglePower, EnterPairing, NothingCame, SendAnswer
  <2>3. CASE (\E r \in Request : Take(r)) \/ Key \/ UNCHANGED vars
    BY <2>3 DEF Take, Key, vars
  <2>4. QED
    BY <1>2, <2>1, <2>2, <2>3 DEF Next
<1>3. IInv /\ [Next]_vars => [A]_vars
  <2> SUFFICES ASSUME IInv, [Next]_vars, NEW f \in Followed, control'[f] # control[f]
               PROVE  \E t \in Thread : ByStore(t, f)
    OBVIOUS
  <2>1. PICK t \in Thread : Store(t)
    BY <1>2
  <2>2. QED
    BY <2>1, <1>1
<1>4. QED
  BY <1>3, ControlInvariant, PTL DEF Spec, LossNeedsOneByte
=============================================================================
