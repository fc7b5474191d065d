----------------------------- MODULE SmartAir2Sim -----------------------------
(***************************************************************************)
(* The room model of the SmartAir2 simulator                               *)
(* (tools/smartair2_simulator/smartair2_sim_control.cpp), the commands of  *)
(* the peer (tools/utils/smartair2_server.cpp) and the keys                *)
(* (tools/smartair2_simulator/main.cpp) that change its settings.          *)
(*                                                                         *)
(* The protocol thread runs load_control(), simulate() and write_status(), *)
(* then takes the keys, then runs loop(); one action stands for each.      *)
(*                                                                         *)
(* Temperatures are whole units.  How far the room moves in an iteration   *)
(* is any positive rate times the time that passed: the code computes the  *)
(* rate from seconds_to_target or passive_seconds_per_degree and from the  *)
(* distance.  A distance below 0.02 degrees is none.  Fan, swing, turbo,   *)
(* quiet, display and humidity are left out: simulate() reads none of them *)
(* but to log that they changed.                                           *)
(***************************************************************************)
EXTENDS Integers, FiniteSets

CONSTANTS
  Files,      \* bound: contents of the control file, records of some keys
  Commands,   \* bound: control packets of the peer, [power, mode, target]
  Rates,      \* how far the room may move in a unit of time
  Elapsed,    \* time between two iterations
  MaxElapsed, \* an iteration counts no more time than this: 5 s in the code
  MinTarget, MaxTarget,  \* what the file may ask for: 16 and 30
  PairingTarget,         \* what the pairing key sets
  FirstRoom, FirstTarget, FirstDrift,  \* at the start: 18, 25 and 28
  MaxRoom                \* sync_room keeps the room between 0 and this: 60

ASSUME RatesAssumption ==
  /\ Rates \subseteq Nat \ {0} /\ Elapsed \subseteq Nat
  /\ Rates # {} /\ Elapsed # {}  \* every iteration has a rate and a duration
ASSUME TargetsAssumption ==
  /\ {MinTarget, MaxTarget, PairingTarget, MaxRoom, MaxElapsed} \subseteq Nat
  /\ {FirstRoom, FirstTarget, FirstDrift} \subseteq Nat
  /\ MinTarget <= MaxTarget /\ FirstRoom <= MaxRoom

Mode == {"auto", "cool", "heat", "fan", "dry"}

ASSUME FilesAssumption ==
  \A f \in Files :
    /\ \A k \in DOMAIN f \cap {"power", "dynamics"} : f[k] \in BOOLEAN
    /\ "mode" \in DOMAIN f => f["mode"] \in Mode
    /\ \A k \in DOMAIN f \ {"power", "dynamics", "mode"} : f[k] \in Int

ASSUME CommandsAssumption ==
  Commands \subseteq [power : BOOLEAN, mode : Mode, target : Nat]

Phase == {"IDLE", "COOLING", "HEATING", "HOLDING", "PASSIVE_DRIFT"}

VARIABLES
  \* of the packet the peer reads and writes
  ac_power, ac_mode,
  target,            \* 16 + set_point
  \* of Runtime
  dynamics, room, room_drift_temperature, hold_seconds, drift_delta,
  hysteresis, phase, compressor_active,
  hold_left,         \* hold_until - now, 0 when it is past
  \* the rest
  file,              \* the control file
  fresh,             \* its mtime is not the one that was read last
  toggle_ac_power, start_pairing,  \* keys of the main thread
  pc,                \* the block that comes next
  steady             \* history: no setting changed since the target was reached

packet == <<ac_power, ac_mode, target>>
settings == <<dynamics, room_drift_temperature, hold_seconds, drift_delta, hysteresis>>
climate == <<room, phase, compressor_active, hold_left>>
keys == <<toggle_ac_power, start_pairing>>
vars == <<packet, settings, climate, file, fresh, keys, pc, steady>>

Smaller(a, b) == IF a < b THEN a ELSE b
Larger(a, b) == IF a > b THEN a ELSE b
Distance(a, b) == Larger(a, b) - Smaller(a, b)
Clamp(x, low, high) == Larger(low, Smaller(high, x))

\* sync_room
Synced(temperature) == Clamp(temperature, 0, MaxRoom)

Block(name, next) == pc = name /\ pc' = next

-----------------------------------------------------------------------------
(* load_control()                                                          *)

\* A key the file does not have leaves the value alone.
Key(k, value) == IF k \in DOMAIN file THEN file[k] ELSE value

LoadControl ==
  /\ Block("load", "simulate")
  /\ fresh' = FALSE
  /\ IF fresh
       THEN /\ dynamics' = Key("dynamics", dynamics)
            /\ hold_seconds' = Larger(0, Key("hold_seconds", hold_seconds))
            /\ drift_delta' = Larger(0, Key("drift_delta", drift_delta))
            /\ hysteresis' = Larger(1, Key("hysteresis", hysteresis))
            /\ room_drift_temperature' = Key("room_drift_temperature",
                 Key("ambient_temperature", room_drift_temperature))
            /\ room' = Synced(Key("room_temperature", room))
            /\ target' = IF "target_temperature" \in DOMAIN file
                           THEN Clamp(file.target_temperature, MinTarget, MaxTarget)
                           ELSE target
            /\ ac_mode' = Key("mode", ac_mode)
            /\ ac_power' = Key("power", ac_power)
            /\ steady' = FALSE
       ELSE UNCHANGED <<packet, settings, room, steady>>
  /\ UNCHANGED <<phase, compressor_active, hold_left, file, keys>>

-----------------------------------------------------------------------------
(* simulate()                                                              *)

\* Mutant: the room is there at once.
AtGoal(current, goal, max_step) == goal

move_towards(current, goal, max_step) ==
  IF current < goal THEN Smaller(goal, current + max_step)
  ELSE Larger(goal, current - max_step)

\* Mutant: the gap is not asked for after a drift.
WantsCoolAtOnce ==
  ac_power /\ ac_mode \in {"auto", "cool"} /\ room > target

WantsCool ==
  /\ ac_power /\ ac_mode \in {"auto", "cool"} /\ room > target
  /\ phase = "PASSIVE_DRIFT" => room >= target + hysteresis

WantsHeat ==
  /\ ac_power /\ ac_mode \in {"auto", "heat"} /\ room < target
  /\ phase = "PASSIVE_DRIFT" => room <= target - hysteresis

\* Without dynamics the phase stays what it was.
StandStill ==
  /\ ~dynamics
  /\ compressor_active' = FALSE
  /\ UNCHANGED <<room, phase, steady>>

\* `now < hold_until' is tested against the deadline of the last target reached.
RunCompressor(step, left) ==
  /\ dynamics
  /\ WantsCool \/ WantsHeat
  /\ compressor_active' = TRUE
  /\ room' = Synced(move_towards(room, target, step))
  /\ IF move_towards(room, target, step) = target
       THEN /\ phase' = "HOLDING"
            /\ hold_left' = hold_seconds
            /\ steady' = TRUE
       ELSE /\ phase' = IF WantsCool THEN "COOLING" ELSE "HEATING"
            /\ hold_left' = left
            /\ UNCHANGED steady

\* Mutant: the room stays where it is while it is held.
HoldRoom(left) ==
  /\ dynamics /\ ~WantsCool /\ ~WantsHeat
  /\ ac_power /\ left > 0
  /\ compressor_active' = FALSE
  /\ phase' = "HOLDING"
  /\ UNCHANGED <<room, steady>>

Hold(left) ==
  /\ dynamics /\ ~WantsCool /\ ~WantsHeat
  /\ ac_power /\ left > 0
  /\ compressor_active' = FALSE
  /\ phase' = "HOLDING"
  /\ room' = Synced(target)
  /\ UNCHANGED steady

\* Mutant: the drift goes to room_drift_temperature in every mode.
PlainDriftGoal == room_drift_temperature

DriftGoal ==
  IF ac_power /\ drift_delta > 0 /\ ac_mode = "cool"
    THEN Larger(room_drift_temperature, target + drift_delta)
  ELSE IF ac_power /\ drift_delta > 0 /\ ac_mode = "heat"
    THEN Smaller(room_drift_temperature, target - drift_delta)
  ELSE room_drift_temperature

Drift(step, left) ==
  /\ dynamics /\ ~WantsCool /\ ~WantsHeat
  /\ ~(ac_power /\ left > 0)
  /\ compressor_active' = FALSE
  /\ phase' = IF ac_power THEN "PASSIVE_DRIFT" ELSE "IDLE"
  /\ room' = Synced(move_towards(room, DriftGoal, step))
  /\ UNCHANGED steady

Simulate ==
  /\ Block("simulate", "keys")
  /\ \E dt \in Elapsed, rate \in Rates :
       LET step == rate * Smaller(dt, MaxElapsed)
           left == Larger(0, hold_left - dt)
       IN  \/ RunCompressor(step, left)
           \/ /\ StandStill \/ Hold(left) \/ Drift(step, left)
              /\ hold_left' = left
  /\ UNCHANGED <<packet, settings, file, fresh, keys>>

-----------------------------------------------------------------------------
(* The keys, the peer and the console                                      *)

\* toggle_ac_power, then start_pairing: its power is on whatever the first did.
TakeKeys ==
  /\ Block("keys", "loop")
  /\ toggle_ac_power' = FALSE
  /\ start_pairing' = FALSE
  /\ ac_power' = IF start_pairing THEN TRUE
                 ELSE IF toggle_ac_power THEN ~ac_power ELSE ac_power
  /\ IF start_pairing
       THEN target' = PairingTarget /\ ac_mode' = "cool"
       ELSE UNCHANGED <<target, ac_mode>>
  /\ steady' = (steady /\ packet' = packet)
  /\ UNCHANGED <<settings, climate, file, fresh>>

\* status_request_handler: power on (4D02), power off (4D03) and group (4D5F);
\* 4D01 asks for the packet only, and everything else is answered with INVALID.
\* A group leaves the room alone, since it skips the bytes of room_temperature
\* and room_humidity.
SetPower(on) == ac_power' = on /\ UNCHANGED <<target, ac_mode>>
SetGroup(c) == ac_power' = c.power /\ ac_mode' = c.mode /\ target' = c.target

HandleRequest ==
  /\ Block("loop", "load")
  /\ \/ \E on \in BOOLEAN : SetPower(on)
     \/ \E c \in Commands : SetGroup(c)
     \/ UNCHANGED packet
  /\ steady' = (steady /\ packet' = packet)
  /\ UNCHANGED <<settings, climate, file, fresh, keys>>

PressKey ==
  /\ \/ toggle_ac_power' = TRUE /\ UNCHANGED start_pairing
     \/ start_pairing' = TRUE /\ UNCHANGED toggle_ac_power
  /\ UNCHANGED <<packet, settings, climate, file, fresh, pc, steady>>

\* The console, or an editor, replaces the control file.
Edit ==
  /\ \E f \in Files : file' = f
  /\ fresh' = TRUE
  /\ UNCHANGED <<packet, settings, climate, keys, pc, steady>>

\* init_ac_state, the defaults of Runtime, and a control file or none; what
\* smartair2_control_init does with the file, the first LoadControl does.
Init ==
  /\ ac_power = FALSE /\ ac_mode = "auto" /\ target = FirstTarget
  /\ dynamics = TRUE
  /\ room = FirstRoom
  /\ room_drift_temperature = FirstDrift
  /\ hold_seconds = 1 /\ drift_delta = 1 /\ hysteresis = 1
  /\ phase = "IDLE" /\ compressor_active = FALSE /\ hold_left = 0
  /\ file \in Files /\ fresh \in BOOLEAN
  /\ toggle_ac_power = FALSE /\ start_pairing = FALSE
  /\ pc = "load"
  /\ steady = FALSE

Iterate == LoadControl \/ Simulate \/ TakeKeys \/ HandleRequest

Next == Iterate \/ PressKey \/ Edit

Spec == Init /\ [][Next]_vars

\* protocol_loop() never stops.
FairSpec == Spec /\ WF_vars(Iterate)

-----------------------------------------------------------------------------
(* Properties                                                              *)

\* The state has its types, and the room stays within the limits of sync_room.
TypeOK ==
  /\ {ac_power, dynamics, compressor_active, fresh, steady} \subseteq BOOLEAN
  /\ {toggle_ac_power, start_pairing} \subseteq BOOLEAN
  /\ ac_mode \in Mode /\ phase \in Phase
  /\ room \in 0 .. MaxRoom /\ target \in Nat /\ room_drift_temperature \in Int
  /\ {hold_left, hold_seconds, drift_delta} \subseteq Nat
  /\ hysteresis \in Nat \ {0}

\* Once the target was reached, and as long as nobody changes a setting, the
\* compressor starts again only after the room went away from the target by the
\* hysteresis ("Temperature gap before active cooling or heating starts again",
\* doc/smartair2_simulator_bench_en.rst:247-248), in every mode.
NoShortCycle ==
  [][compressor_active' /\ ~compressor_active /\ steady =>
       Distance(room, target) >= hysteresis]_vars

\* What write_status publishes right after simulate() agrees with itself,
\* whatever the peer and the console changed before: the compressor runs only
\* in a mode that needs it, a phase that runs it says so, holding is at the
\* target, and idle means off.
StatusAgrees ==
  pc = "keys" =>
    /\ compressor_active => /\ dynamics /\ ac_power /\ ac_mode \in {"auto", "cool", "heat"}
                            /\ phase \in {"COOLING", "HEATING", "HOLDING"}
    /\ dynamics => /\ phase = "HOLDING" => room = Synced(target)
                   /\ phase = "IDLE" <=> ~ac_power
                   /\ phase = "COOLING" => compressor_active /\ room >= Synced(target)
                   /\ phase = "HEATING" => compressor_active /\ room <= Synced(target)

\* A cooling AC whose settings do not change any more reaches its target and
\* drifts away from it again and again (expected behaviour 3 to 5 of the cooling
\* demo, doc/smartair2_simulator_bench_en.rst:267-273), even when
\* room_drift_temperature is below the target, if the drift it adds by
\* drift_delta is not less than the hysteresis.
Cooling ==
  /\ dynamics /\ ac_power /\ ac_mode = "cool" /\ ~fresh
  /\ drift_delta >= hysteresis /\ target + drift_delta <= MaxRoom
  /\ ~toggle_ac_power /\ ~start_pairing

CoolingCycles ==
  <>[][Cooling /\ Cooling' /\ UNCHANGED <<packet, settings, file>>]_vars
    => []<>compressor_active /\ []<>(phase = "HOLDING") /\ []<>(phase = "PASSIVE_DRIFT")

\* simulate() moves the room no further in one iteration than the compressor or
\* the drift can in the time it counts ("Speed of natural room drift when the AC
\* is idle", doc/smartair2_simulator_bench_en.rst:250-251), with one exception:
\* in a hold during which a setting changed, it sets the room to the new target,
\* with the compressor off.
MovedAtOnce == hold_left > 0 /\ ~steady /\ ac_power /\ ~compressor_active'

RoomMovesGradually ==
  [][pc = "simulate" =>
       \/ \E dt \in Elapsed, rate \in Rates :
            Distance(room', room) <= rate * Smaller(dt, MaxElapsed)
       \/ MovedAtOnce]_vars
=============================================================================
