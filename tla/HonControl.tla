------------------------------ MODULE HonControl ------------------------------
(***************************************************************************)
(* The control packet of the hOn simulator: the handlers of                *)
(* tools/utils/hon_server.cpp, preloop() and the keys of                   *)
(* tools/hon_simulator/main.cpp.                                           *)
(*                                                                         *)
(* Two threads share ac_status without a lock: the protocol thread runs    *)
(* preloop() and the handlers, the main thread the key handlers.  A bit    *)
(* field is changed by loading its byte, changing the bits and storing the *)
(* byte: two steps, with those of the other thread between them.           *)
(*                                                                         *)
(* A change is a function from fields of one byte to their new values; a   *)
(* thread carries out the changes of its job in order.  The value that     *)
(* `1 - field' reads is read when the job starts, before the byte is       *)
(* loaded: a build that loads once is the case of no step between.         *)
(***************************************************************************)
EXTENDS Integers, Sequences

CONSTANTS
  Followed,  \* the fields that a check follows
  Values,    \* bound: values sent for single parameters
  Groups     \* bound: control packets sent by the peer, each [Followed -> Nat]

-----------------------------------------------------------------------------
(* HaierPacketControl                                                      *)

Bytes == <<
  {"set_point"},
  {"vertical_swing_mode"},
  {"fan_mode", "special_mode", "ac_mode"},
  {},
  {"ten_degree", "display_status", "half_degree", "intelligence_status",
   "pmv_status", "use_fahrenheit", "steri_clean"},
  {"ac_power", "health_mode", "electric_heating_status", "fast_mode",
   "quiet_mode", "sleep_mode", "lock_remote", "beeper_status"},
  {"target_humidity"},
  {"horizontal_swing_mode", "human_sensing_status"},
  {"change_filter"},
  {"fresh_air_status", "humidification_status", "pm2p5_cleaning_status",
   "ch2o_cleaning_status", "self_cleaning_status", "light_status",
   "energy_saving_status", "cleaning_time_status"}>>

Field == UNION {Bytes[b] : b \in DOMAIN Bytes}

\* The fields whose values decide what happens are among them.
ASSUME FollowedAssumption ==
  /\ Followed \subseteq Field
  /\ {"set_point", "ac_power", "quiet_mode", "health_mode"} \subseteq Followed
ASSUME ValuesAssumption == Values \subseteq Nat

ByteOf(f) == CHOOSE b \in DOMAIN Bytes : f \in Bytes[b]

\* How many values a field holds.
Size(f) ==
  CASE f \in {"set_point", "target_humidity"}                  -> 256
    [] f = "vertical_swing_mode"                               -> 16
    [] f \in {"fan_mode", "ac_mode", "horizontal_swing_mode"}  -> 8
    [] f \in {"special_mode", "human_sensing_status"}          -> 4
    [] OTHER                                                   -> 2

\* The packet brings the bits of its fields.
ASSUME GroupsAssumption ==
  /\ Groups \subseteq [Followed -> Nat]
  /\ \A g \in Groups : \A f \in Followed : g[f] < Size(f)

init_ac_state ==
  [f \in Field |->
     CASE f = "set_point"                             -> 25 - 16
       [] f = "vertical_swing_mode"                   -> 12
       [] f = "fan_mode"                              -> 5
       [] f = "horizontal_swing_mode"                 -> 7
       [] f \in {"display_status", "light_status"}    -> 1
       [] OTHER                                       -> 0]

\* What the pairing key sets, field by field; steri_clean, target_humidity,
\* human_sensing_status and change_filter stay.
PairingFields == <<
  "set_point", "vertical_swing_mode", "fan_mode", "special_mode", "ac_mode",
  "ten_degree", "display_status", "half_degree", "intelligence_status",
  "pmv_status", "use_fahrenheit", "ac_power", "health_mode",
  "electric_heating_status", "fast_mode", "quiet_mode", "sleep_mode",
  "lock_remote", "beeper_status", "horizontal_swing_mode", "fresh_air_status",
  "humidification_status", "pm2p5_cleaning_status", "ch2o_cleaning_status",
  "self_cleaning_status", "light_status", "energy_saving_status",
  "cleaning_time_status">>

PairingSetPoint == 14

PairingValue(f) ==
  CASE f = "set_point"            -> PairingSetPoint
    [] f = "vertical_swing_mode"  -> 2
    [] f = "fan_mode"             -> 3
    [] f \in {"ac_mode", "display_status", "ac_power", "health_mode",
              "pm2p5_cleaning_status", "ch2o_cleaning_status"} -> 1
    [] OTHER                      -> 0

-----------------------------------------------------------------------------
Thread == {"main", "protocol"}

\* enum DataParameters, and a number that is none of them.
Parameter ==
  [ac_power |-> 1, set_point |-> 2, ac_mode |-> 4, fan_mode |-> 5,
   use_fahrenheit |-> 7, ten_degree |-> 10, health_mode |-> 11,
   beeper_status |-> 22, lock_remote |-> 23, quiet_mode |-> 25,
   fast_mode |-> 26, unknown |-> 0]

\* What the peer sends, well-formed or not; one that is too short sets nothing.
Request ==
  [kind: {"GET_DEVICE_VERSION", "GET_DEVICE_ID", "GET_ALARM_STATUS",
          "GET_MANAGEMENT_INFORMATION", "GET_USER_DATA", "GET_BIG_DATA"}, size: {0, 2}]
    \cup [kind: {"GET_DEVICE_VERSION", "UNKNOWN_SUBCOMMAND"}, size: {1}]
    \cup [kind: {"REPORT_NETWORK_STATUS"}, size: {3, 4}, st: {0, 3}]
    \cup [kind: {"SET_GROUP_PARAMETERS"}, size: {2, 12}, group: Groups]
    \cup [kind: {"SET_SINGLE_PARAMETER"}, size: {4},
          parameter: DOMAIN Parameter \cap (Followed \cup {"unknown"}), value: Values]
    \cup [kind: {"SET_SINGLE_PARAMETER"}, size: {2}, parameter: {"unknown"}, value: {0}]

NoRequest == [kind |-> "NONE", size |-> 0]

VARIABLES
  control,           \* ac_status.control
  config_mode,
  _toggle_ac_power,
  _pairing_mode,
  pc,                \* the block of the protocol thread that comes next
  job,               \* [Thread -> changes to carry out]
  copy,              \* [Thread -> the byte it has loaded; empty if none]
  request,           \* the request the protocol thread handles
  result,            \* what its handler will return
  \* history, read by no action
  changed,           \* what the protocol thread changed since the request came
  stored,            \* bytes the main thread stored since the request came
  missed,            \* [Thread -> fields changed by the other since it loaded]
  offered            \* pairing was started, and the peer has not answered it

history == <<changed, stored, missed, offered>>
vars == <<control, config_mode, _toggle_ac_power, _pairing_mode, pc, job, copy,
          request, result, history>>

-----------------------------------------------------------------------------
(* Loads and stores of a thread                                            *)

NoCopy == [f \in {} |-> 0]

\* What is followed of the byte that a change loads and stores.
ByteOfChange(change) ==
  {g \in Followed : \E f \in DOMAIN change : ByteOf(g) = ByteOf(f)}

\* SET_IF_DIFFERENT and the loop over the control bytes skip a change that
\* changes nothing; the value is not truncated before it is compared.  A change to a
\* byte of which nothing is followed is left out.
Skipped(t, change) ==
  \/ ByteOfChange(change) = {}
  \/ t = "protocol" /\ pc = "answer" /\ \A f \in DOMAIN change : control[f] = change[f]

\* Mutant: the whole packet is copied, and written back.
ByteOfStruct(change) == Followed

CopiedBy(change) == ByteOfChange(change)

Load(t) ==
  /\ job[t] # <<>> /\ copy[t] = NoCopy
  /\ IF Skipped(t, Head(job[t]))
       THEN job' = [job EXCEPT ![t] = Tail(@)] /\ UNCHANGED <<copy, missed>>
       ELSE /\ copy' = [copy EXCEPT ![t] = [f \in CopiedBy(Head(job[t])) |-> control[f]]]
            /\ missed' = [missed EXCEPT ![t] = {}]
            /\ UNCHANGED job
  /\ UNCHANGED <<control, config_mode, _toggle_ac_power, _pairing_mode, pc,
                 request, result, changed, stored, offered>>

Store(t) ==
  LET change == Head(job[t])
  IN  /\ copy[t] # NoCopy
      /\ control' = [f \in Followed |->
                       IF f \in DOMAIN change THEN change[f] % Size(f)
                       ELSE IF f \in DOMAIN copy[t] THEN copy[t][f]
                       ELSE control[f]]
      /\ copy' = [copy EXCEPT ![t] = NoCopy]
      /\ job' = [job EXCEPT ![t] = Tail(@)]
      /\ missed' = [u \in Thread |-> IF u = t THEN {} ELSE missed[u] \cup
                      {f \in DOMAIN copy[u] : control'[f] # control[f]}]
      /\ IF t = "main" /\ pc = "answer"
           THEN stored' = stored \cup {ByteOf(f) : f \in DOMAIN copy[t]}
           ELSE UNCHANGED stored
      /\ IF t = "protocol" /\ pc = "answer"
           THEN changed' = changed \cup {f \in Followed : control'[f] # control[f]}
           ELSE UNCHANGED changed
      /\ UNCHANGED <<config_mode, _toggle_ac_power, _pairing_mode, pc, request,
                     result, offered>>

-----------------------------------------------------------------------------
(* preloop()                                                               *)

Block(name, next) == pc = name /\ job["protocol"] = <<>> /\ pc' = next

TogglePower ==
  /\ Block("toggle", "pairing")
  /\ _toggle_ac_power' = FALSE
  /\ job' = IF _toggle_ac_power /\ ~config_mode
              THEN [job EXCEPT !["protocol"] =
                      <<[ac_power |-> IF control.ac_power = 1 THEN 0 ELSE 1]>>]
              ELSE job
  /\ UNCHANGED <<control, config_mode, _pairing_mode, copy, request, result, history>>

PairingChanges == [i \in DOMAIN PairingFields |->
                     [f \in {PairingFields[i]} |-> PairingValue(f)]]

EnterPairing ==
  /\ Block("pairing", "loop")
  /\ _pairing_mode' = FALSE
  /\ IF _pairing_mode /\ ~config_mode
       THEN /\ job' = [job EXCEPT !["protocol"] = PairingChanges]
            /\ offered' = TRUE
       ELSE UNCHANGED <<job, offered>>
  /\ UNCHANGED <<control, config_mode, _toggle_ac_power, copy, request, result,
                 changed, stored, missed>>

-----------------------------------------------------------------------------
(* loop(): it takes one request, whose handler stores and answers          *)

\* What a handler makes of its request: the changes of the packet, in order, the
\* configuration mode it leaves, and what it returns.  The errors are one.
Does(changes, returned) ==
  [changes |-> changes, config |-> config_mode, result |-> returned]

Refused == Does(<<>>, "error")

\* Mutant: a value is stored before it is found to be out of range.
StoredFirst(test, f, value) ==
  Does(<<[g \in {f} |-> value]>>, IF test THEN "HANDLER_OK" ELSE "error")

\* One case of the switch of process_single_parameter.
Branch(test, f, value) ==
  IF test THEN Does(<<[g \in {f} |-> value]>>, "HANDLER_OK") ELSE Refused

\* SET_POINT, AC_MODE and FAN_MODE test the number of the parameter and not its
\* value.
process_single_parameter(parameter, value) ==
  LET n == Parameter[parameter]
  IN  CASE parameter = "unknown"   -> Refused
        [] parameter = "set_point" -> Branch(n \in 0..14, parameter, value)
        [] parameter = "ac_mode"   -> Branch(n \in 0..6, parameter, value)
        [] parameter = "fan_mode"  -> Branch(n \in 1..3 \cup {5}, parameter, value)
        [] OTHER                   -> Branch(value <= 1, parameter, value)

\* Mutant: the packet is copied at once.
PacketAtOnce(r) == <<r.group>>

\* The packet, byte by byte.
GroupChanges(r) ==
  [b \in DOMAIN Bytes |-> [f \in {g \in Followed : ByteOf(g) = b} |-> r.group[f]]]

status_request_handler(r) ==
  CASE r.kind \in {"GET_USER_DATA", "GET_BIG_DATA"} /\ r.size = 2 -> Does(<<>>, "HANDLER_OK")
    [] r.kind = "SET_GROUP_PARAMETERS" /\ r.size - 2 = Len(Bytes) -> Does(GroupChanges(r), "HANDLER_OK")
    [] r.kind = "SET_SINGLE_PARAMETER" /\ r.size = 4 -> process_single_parameter(r.parameter, r.value)
    [] OTHER -> Refused

\* Mutant: a report of configuration mode withdraws the offer too.
ReportWithdrawsAlways(r) ==
  IF control.set_point = PairingSetPoint
    THEN <<[set_point |-> PairingSetPoint - 1]>> ELSE <<>>

ReportChanges(r) ==
  IF r.st # 3 /\ control.set_point = PairingSetPoint
    THEN <<[set_point |-> PairingSetPoint - 1]>> ELSE <<>>

report_network_status_handler(r) ==
  IF r.size = 4
    THEN [Does(ReportChanges(r), "HANDLER_OK") EXCEPT !.config = (r.st = 3)]
    ELSE Refused

\* The handlers that answer with data outside the packet, and the sizes they take.
RightSize ==
  [GET_DEVICE_VERSION |-> {0, 2}, GET_DEVICE_ID |-> {0}, GET_ALARM_STATUS |-> {0},
   GET_MANAGEMENT_INFORMATION |-> {0}]

OtherHandler(r) == Does(<<>>, IF r.size \in RightSize[r.kind] THEN "HANDLER_OK" ELSE "error")

Handle(r) ==
  CASE r.kind = "REPORT_NETWORK_STATUS" -> report_network_status_handler(r)
    [] r.kind \in DOMAIN RightSize      -> OtherHandler(r)
    [] OTHER                            -> status_request_handler(r)

\* The peer sets the temperature itself, or reports that it is not in
\* configuration mode.
EndsOffer(r) ==
  /\ Handle(r).result = "HANDLER_OK"
  /\ \/ r.kind = "SET_GROUP_PARAMETERS"
     \/ r.kind = "SET_SINGLE_PARAMETER" /\ r.parameter = "set_point"
     \/ r.kind = "REPORT_NETWORK_STATUS" /\ r.st # 3

Take(r) ==
  /\ Block("loop", "answer")
  /\ request' = r
  /\ job' = [job EXCEPT !["protocol"] = Handle(r).changes]
  /\ config_mode' = Handle(r).config
  /\ result' = Handle(r).result
  /\ changed' = IF config_mode' # config_mode THEN {"config_mode"} ELSE {}
  /\ offered' = (offered /\ ~EndsOffer(r))
  /\ UNCHANGED <<control, _toggle_ac_power, _pairing_mode, copy, stored, missed>>

NothingCame ==
  /\ Block("loop", "toggle")
  /\ UNCHANGED <<control, config_mode, _toggle_ac_power, _pairing_mode, job, copy,
                 request, result, history>>

\* Mutant: the answer is built before the packet is changed.
AnswerFirst ==
  /\ pc = "answer" /\ pc' = "toggle"
  /\ request' = NoRequest /\ result' = "NONE" /\ changed' = {} /\ stored' = {}
  /\ UNCHANGED <<control, config_mode, _toggle_ac_power, _pairing_mode, job, copy,
                 missed, offered>>

\* After an error the answer is INVALID_MSG; a STATUS is the packet as it is now.
SendAnswer ==
  /\ Block("answer", "toggle")
  /\ request' = NoRequest /\ result' = "NONE" /\ changed' = {} /\ stored' = {}
  /\ UNCHANGED <<control, config_mode, _toggle_ac_power, _pairing_mode, job, copy,
                 missed, offered>>

-----------------------------------------------------------------------------
(* The keys of the main thread                                             *)

PressPower == _toggle_ac_power' = TRUE /\ UNCHANGED <<_pairing_mode, job>>
PressPairing == _pairing_mode' = TRUE /\ UNCHANGED <<_toggle_ac_power, job>>

KeyJob(changes) ==
  /\ job' = [job EXCEPT !["main"] = changes]
  /\ UNCHANGED <<_toggle_ac_power, _pairing_mode>>

PressClean == KeyJob(<<[self_cleaning_status |-> 0], [steri_clean |-> 0]>>)
PressQuiet == KeyJob(<<[quiet_mode |-> 1 - control.quiet_mode]>>)
PressHealth == KeyJob(<<[health_mode |-> 1 - control.health_mode]>>)

Key ==
  /\ job["main"] = <<>>
  /\ PressPower \/ PressPairing \/ PressClean \/ PressQuiet \/ PressHealth
  /\ UNCHANGED <<control, config_mode, pc, copy, request, result, history>>

Init ==
  /\ control = [f \in Followed |-> init_ac_state[f]]
  /\ config_mode = FALSE
  /\ _toggle_ac_power = FALSE
  /\ _pairing_mode = FALSE
  /\ pc = "toggle"
  /\ job = [t \in Thread |-> <<>>]
  /\ copy = [t \in Thread |-> NoCopy]
  /\ request = NoRequest
  /\ result = "NONE"
  /\ changed = {}
  /\ stored = {}
  /\ missed = [t \in Thread |-> {}]
  /\ offered = FALSE

Next ==
  \/ \E t \in Thread : Load(t) \/ Store(t)
  \/ TogglePower \/ EnterPairing \/ NothingCame \/ SendAnswer
  \/ \E r \in Request : Take(r)
  \/ Key

Spec == Init /\ [][Next]_vars

-----------------------------------------------------------------------------
(* Properties                                                              *)

\* Every field holds a value that fits it, and a thread works on one byte.
TypeOK ==
  /\ \A f \in Followed : control[f] \in 0 .. Size(f) - 1
  /\ \A t \in Thread : \/ copy[t] = NoCopy
                       \/ \E b \in DOMAIN Bytes : DOMAIN copy[t] \subseteq Bytes[b]

\* The values that a command gives to fields.
Asked(r) ==
  CASE r.kind = "SET_GROUP_PARAMETERS" -> r.group
    [] r.kind = "SET_SINGLE_PARAMETER" -> [f \in {r.parameter} |-> r.value]
    [] OTHER                           -> [f \in {} |-> 0]

\* The packet shows a value, or what is left of one that was not tested.
Shows(f, value) ==
  \/ control[f] = value
  \/ f \in {"set_point", "ac_mode", "fan_mode"} /\ value >= Size(f) /\ control[f] = value % Size(f)

\* The answer to an accepted command shows what the command asked for, whatever
\* keys come between, unless a key stored the same byte meanwhile; a value that
\* does not fit its field is accepted for three fields only.
AnswerShowsRequest ==
  [][pc = "answer" /\ pc' = "toggle" /\ result = "HANDLER_OK" =>
       \A f \in DOMAIN Asked(request) :
         Shows(f, Asked(request)[f]) \/ ByteOf(f) \in stored]_vars

\* What a request may change.
Named(r) ==
  DOMAIN Asked(r) \cup
    (IF r.kind = "REPORT_NETWORK_STATUS" THEN {"config_mode"} ELSE {}) \cup
    (IF r.kind = "REPORT_NETWORK_STATUS" /\ r.st # 3 THEN {"set_point"} ELSE {})

\* Until a request is answered its handler changes nothing but what an accepted
\* request names, whatever order the handler tests and stores in, however many
\* stores it needs and whatever bytes have become stale meanwhile; what else it
\* changes is in a byte that a key stored since the request came.
NothingElseChanges ==
  \A f \in changed : \/ result = "HANDLER_OK" /\ f \in Named(request)
                     \/ f \in Field /\ ByteOf(f) \in stored

\* A field changes only when a thread assigns it, or when it is in the byte of a
\* change of one thread and the other changed it after that byte was loaded: a
\* lost update needs two changes of one byte at once.
LossNeedsOneByte ==
  [][\A f \in Followed : control'[f] # control[f] =>
       \E t \in Thread :
         /\ job[t] # <<>> /\ copy[t] # NoCopy /\ copy'[t] = NoCopy
         /\ \/ f \in DOMAIN Head(job[t])
            \/ f \in missed[t] /\ \E g \in DOMAIN Head(job[t]) : ByteOf(g) = ByteOf(f)]_vars

\* Once pairing was started the peer reads the pairing set point until it sets
\* another or reports that it is not in configuration mode: neither keys nor the
\* report that it entered that mode withdraw the offer.
PairingOffered ==
  offered /\ (pc # "loop" \/ job["protocol"] = <<>>) => control.set_point = PairingSetPoint
=============================================================================
