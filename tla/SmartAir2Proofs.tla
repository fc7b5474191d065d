---------------------------- MODULE SmartAir2Proofs ----------------------------
(***************************************************************************)
(* Proofs about the SmartAir2 simulator: the room model, for any control   *)
(* files, commands and rates, and the control file, for any number of      *)
(* threads, requests and seconds.                                          *)
(***************************************************************************)
EXTENDS SmartAir2Sim, ControlFile, WellFoundedInduction, TLAPS

-----------------------------------------------------------------------------
(* The room                                                                *)

LEMMA LimitsAreNumbers ==
  /\ MaxRoom \in Nat /\ MaxElapsed \in Nat
  /\ MinTarget \in Nat /\ MaxTarget \in Nat /\ PairingTarget \in Nat
  /\ FirstRoom \in 0 .. MaxRoom /\ FirstTarget \in Nat /\ FirstDrift \in Int
  /\ MinTarget <= MaxTarget
  BY TargetsAssumption

\* TypeOK, a component at a time.
Types ==
  /\ ac_power \in BOOLEAN /\ dynamics \in BOOLEAN /\ compressor_active \in BOOLEAN
  /\ fresh \in BOOLEAN /\ steady \in BOOLEAN
  /\ toggle_ac_power \in BOOLEAN /\ start_pairing \in BOOLEAN
  /\ ac_mode \in Mode /\ phase \in Phase
  /\ room \in 0 .. MaxRoom /\ target \in Nat /\ room_drift_temperature \in Int
  /\ hold_left \in Nat /\ hold_seconds \in Nat /\ drift_delta \in Nat
  /\ hysteresis \in Nat \ {0}

\* A running compressor is in a phase that runs it, or has just got there.
RunsInPhase == compressor_active => phase \in {"COOLING", "HEATING", "HOLDING"}

\* While nobody changes a setting, a compressor that stands still has reached the
\* target or lets the room drift; a target that the room cannot reach keeps it on.
SteadyWaits ==
  steady =>
    /\ dynamics /\ ac_power /\ ac_mode \in {"auto", "cool", "heat"}
    /\ ~compressor_active =>
         phase = "PASSIVE_DRIFT" \/ (phase = "HOLDING" /\ room = target)
    /\ target <= MaxRoom \/ (compressor_active /\ ac_mode \in {"auto", "heat"})

IInv == Types /\ file \in Files /\ RunsInPhase /\ SteadyWaits /\ StatusAgrees

\* While nobody changes a setting, the phase tells on which side of the target
\* the room is.
SteadySide ==
  steady =>
    /\ phase = "HOLDING" => room = Synced(target)
    /\ phase = "COOLING" => ac_mode \in {"auto", "cool"} /\ room >= Synced(target)
    /\ phase = "HEATING" => ac_mode \in {"auto", "heat"} /\ room <= Synced(target)

\* The room drifts with the power on only when no hold is left.
NoHoldInDrift == phase = "PASSIVE_DRIFT" => hold_left = 0

MoveInv == IInv /\ SteadySide /\ NoHoldInDrift

-----------------------------------------------------------------------------
(* The helpers                                                             *)

LEMMA ClampBounds ==
  ASSUME NEW x \in Int, NEW low \in Int, NEW high \in Int, low <= high
  PROVE  Clamp(x, low, high) \in low .. high
  BY DEF Clamp, Larger, Smaller

\* sync_room keeps every temperature within its limits, and those as they are.
LEMMA SyncedBounds ==
  ASSUME NEW x \in Int
  PROVE  Synced(x) \in 0 .. MaxRoom /\ (x \in 0 .. MaxRoom => Synced(x) = x)
  BY LimitsAreNumbers DEF Synced, Clamp, Larger, Smaller

LEMMA SyncedMonotonic ==
  ASSUME NEW x \in Int, NEW y \in Int, x <= y
  PROVE  Synced(x) <= Synced(y)
  BY LimitsAreNumbers DEF Synced, Clamp, Larger, Smaller

\* The room never passes the temperature it moves to.
LEMMA MovesTowards ==
  ASSUME NEW x \in Int, NEW goal \in Int, NEW stride \in Nat
  PROVE  /\ move_towards(x, goal, stride) \in Int
         /\ x >= goal => move_towards(x, goal, stride) >= goal
         /\ x <= goal => move_towards(x, goal, stride) <= goal
  BY DEF move_towards, Larger, Smaller

\* What a key of the control file gives to a setting.
LEMMA KeyTypes ==
  ASSUME file \in Files
  PROVE  /\ \A v \in BOOLEAN : Key("power", v) \in BOOLEAN /\ Key("dynamics", v) \in BOOLEAN
         /\ \A v \in Mode : Key("mode", v) \in Mode
         /\ \A k \in {"hold_seconds", "drift_delta", "hysteresis", "room_drift_temperature",
                      "ambient_temperature", "room_temperature", "target_temperature"} :
              \A v \in Int : Key(k, v) \in Int
  BY FilesAssumption DEF Key

-----------------------------------------------------------------------------
(* Every action keeps the invariant                                        *)

LEMMA InitIInv == Init => IInv
<1>. SUFFICES ASSUME Init PROVE IInv
  OBVIOUS
<1>1. target \in Nat /\ room \in 0 .. MaxRoom /\ room_drift_temperature \in Int
  BY LimitsAreNumbers DEF Init
<1>. QED
  <2>1. Types
    <3>1. /\ ac_power \in BOOLEAN /\ dynamics \in BOOLEAN /\ compressor_active \in BOOLEAN
          /\ fresh \in BOOLEAN /\ steady \in BOOLEAN
          /\ toggle_ac_power \in BOOLEAN /\ start_pairing \in BOOLEAN
      BY Zenon DEF Init
    <3>2. /\ ac_mode \in Mode /\ phase \in Phase
          /\ hold_left \in Nat /\ hold_seconds \in Nat /\ drift_delta \in Nat
          /\ hysteresis \in Nat \ {0}
      BY SMT DEF Init, Mode, Phase
    <3>. QED
      BY <1>1, <3>1, <3>2 DEF Types
  <2>. QED
    BY <2>1 DEF Init, IInv, RunsInPhase, SteadyWaits, StatusAgrees

LEMMA LoadKeeps ==
  ASSUME IInv, LoadControl
  PROVE  IInv'
<1>. USE DEF IInv
<1>1. pc' = "simulate" /\ file' = file
  BY DEF LoadControl, Block
<1>2. CASE ~fresh
  BY <1>1, <1>2 DEF LoadControl, Types, RunsInPhase, SteadyWaits, StatusAgrees,
                    packet, settings, keys
<1>3. CASE fresh
  <2>1. UNCHANGED <<phase, compressor_active, hold_left, keys>> /\ steady' = FALSE /\ fresh' = FALSE
    BY <1>3 DEF LoadControl
  <2>2. /\ dynamics' \in BOOLEAN /\ ac_power' \in BOOLEAN /\ ac_mode' \in Mode
        /\ room_drift_temperature' \in Int
    BY <1>3, KeyTypes DEF LoadControl, Types
  <2>3. hold_seconds' \in Nat /\ drift_delta' \in Nat /\ hysteresis' \in Nat \ {0}
    <3>1. /\ Key("hold_seconds", hold_seconds) \in Int
          /\ Key("drift_delta", drift_delta) \in Int
          /\ Key("hysteresis", hysteresis) \in Int
      <4>. hold_seconds \in Int /\ drift_delta \in Int /\ hysteresis \in Int
        BY DEF Types
      <4>. QED
        BY KeyTypes
    <3>. QED
      BY <1>3, <3>1 DEF LoadControl, Larger
  <2>4. room' \in 0 .. MaxRoom
    <3>1. Key("room_temperature", room) \in Int
      BY KeyTypes DEF Types
    <3>. QED
      BY <1>3, <3>1, SyncedBounds DEF LoadControl
  <2>5. target' \in Nat
    <3>1. "target_temperature" \in DOMAIN file => file.target_temperature \in Int
      BY FilesAssumption
    <3>. QED
      <4>1. CASE "target_temperature" \in DOMAIN file
        <5>1. target' = Clamp(file.target_temperature, MinTarget, MaxTarget)
          BY <1>3, <4>1 DEF LoadControl
        <5>2. target' \in MinTarget .. MaxTarget
          BY <3>1, <4>1, <5>1, ClampBounds, LimitsAreNumbers
        <5>. QED
          BY <5>2, LimitsAreNumbers
      <4>2. CASE "target_temperature" \notin DOMAIN file
        BY <1>3, <4>2 DEF LoadControl, Types
      <4>. QED
        BY <4>1, <4>2
  <2>. QED
    BY <1>1, <2>1, <2>2, <2>3, <2>4, <2>5
    DEF Types, RunsInPhase, SteadyWaits, StatusAgrees, keys
<1>. QED
  BY <1>2, <1>3 DEF Types

\* What an iteration of simulate() leaves alone.
LEMMA SimulateLeaves ==
  ASSUME Simulate
  PROVE  /\ pc = "simulate" /\ pc' = "keys"
         /\ UNCHANGED <<ac_power, ac_mode, target, dynamics, room_drift_temperature,
                        hold_seconds, drift_delta, hysteresis, file, fresh,
                        toggle_ac_power, start_pairing>>
  BY DEF Simulate, Block, packet, settings, keys

LEMMA CompressorKeeps ==
  ASSUME IInv, Simulate, NEW stride \in Nat, NEW left \in Nat, RunCompressor(stride, left)
  PROVE  IInv'
<1>. DEFINE moved == move_towards(room, target, stride)
<1>. USE DEF IInv
<1>1. /\ dynamics /\ compressor_active' = TRUE /\ room' = Synced(moved)
      /\ IF moved = target
           THEN phase' = "HOLDING" /\ hold_left' = hold_seconds /\ steady' = TRUE
           ELSE /\ phase' = IF WantsCool THEN "COOLING" ELSE "HEATING"
                /\ hold_left' = left /\ steady' = steady
  BY DEF RunCompressor
<1>2. /\ moved \in Int
      /\ room >= target => moved >= target
      /\ room <= target => moved <= target
  <2>. room \in Int /\ target \in Int
    BY DEF Types
  <2>. QED
    BY MovesTowards
<1>3. /\ ac_power /\ (WantsCool \/ WantsHeat)
      /\ WantsCool => ac_mode \in {"auto", "cool"} /\ room > target
      /\ WantsHeat => ac_mode \in {"auto", "heat"} /\ room < target
  BY DEF RunCompressor, WantsCool, WantsHeat
<1>4. Types'
  BY <1>1, <1>2, SyncedBounds, SimulateLeaves, ZenonT(30) DEF Types, Phase
<1>5. RunsInPhase'
  BY <1>1 DEF RunsInPhase
<1>6. SteadyWaits'
  <2>1. target > MaxRoom => ac_mode \in {"auto", "heat"}
    BY <1>3, LimitsAreNumbers DEF Types
  <2>2. target \in Nat /\ target' = target /\ dynamics' /\ ac_power'
    BY <1>1, <1>3, SimulateLeaves DEF Types
  <2>3. ac_mode' \in {"auto", "cool", "heat"} /\ ac_mode' = ac_mode
    BY <1>3, SimulateLeaves
  <2>. QED
    BY <1>1, <2>1, <2>2, <2>3, LimitsAreNumbers DEF SteadyWaits
<1>7. StatusAgrees'
  <2>1. moved = target => room' = Synced(target)
    BY <1>1
  <2>2. WantsCool => room' >= Synced(target)
    BY <1>1, <1>2, <1>3, SyncedMonotonic DEF Types
  <2>3. WantsHeat => room' <= Synced(target)
    BY <1>1, <1>2, <1>3, SyncedMonotonic DEF Types
  <2>4. /\ phase' \in {"HOLDING", "COOLING", "HEATING"}
        /\ phase' = "HOLDING" => moved = target
        /\ phase' = "COOLING" => WantsCool
        /\ phase' = "HEATING" => WantsHeat
    BY <1>1, <1>3
  <2>5. Synced(target)' = Synced(target)
    BY SimulateLeaves
  <2>. HIDE DEF moved
  <2>. QED
    BY <1>1, <1>3, <2>1, <2>2, <2>3, <2>4, <2>5, SimulateLeaves DEF StatusAgrees
<1>. QED
  BY <1>4, <1>5, <1>6, <1>7, SimulateLeaves

\* With nothing to do for the compressor, the target is one that the room has.
LEMMA SteadyCanReach ==
  ASSUME IInv, steady, ~WantsHeat
  PROVE  target <= MaxRoom
<1>. USE LimitsAreNumbers
<1>1. SUFFICES ASSUME target > MaxRoom PROVE FALSE
  BY DEF IInv, Types
<1>2. ac_power /\ ac_mode \in {"auto", "heat"} /\ phase # "PASSIVE_DRIFT"
  BY <1>1 DEF IInv, SteadyWaits, RunsInPhase, Types
<1>. QED
  BY <1>1, <1>2 DEF WantsHeat, IInv, Types

LEMMA RestKeeps ==
  ASSUME IInv, Simulate, NEW stride \in Nat, NEW left \in Nat, hold_left' = left,
         StandStill \/ Hold(left) \/ Drift(stride, left)
  PROVE  IInv'
<1>. USE DEF IInv
<1>1. CASE StandStill
  <2>1. Types' /\ RunsInPhase' /\ SteadyWaits'
    BY <1>1, SimulateLeaves DEF StandStill, Types, RunsInPhase, SteadyWaits
  <2>2. ~compressor_active' /\ ~dynamics'
    BY <1>1, SimulateLeaves DEF StandStill
  <2>3. StatusAgrees'
    BY <2>2 DEF StatusAgrees
  <2>. QED
    BY <2>1, <2>3, SimulateLeaves
<1>2. CASE Hold(left)
  <2>1. Synced(target) \in 0 .. MaxRoom /\ (steady => Synced(target) = target)
    BY <1>2, SyncedBounds, SteadyCanReach DEF Hold, Types
  <2>2. Types' /\ RunsInPhase'
    BY <1>2, <2>1, SimulateLeaves DEF Hold, Types, RunsInPhase, Phase
  <2>3. SteadyWaits'
    BY <1>2, <2>1, SteadyCanReach, SimulateLeaves DEF Hold, SteadyWaits
  <2>4. StatusAgrees'
    <3>1. Synced(target)' = Synced(target)
      BY SimulateLeaves
    <3>. QED
      BY <1>2, <3>1, SimulateLeaves DEF Hold, StatusAgrees
  <2>. QED
    BY <2>2, <2>3, <2>4, SimulateLeaves
<1>3. CASE Drift(stride, left)
  <2>1. room' \in 0 .. MaxRoom
    <3>1. DriftGoal \in Int
      BY DEF DriftGoal, Larger, Smaller, Types
    <3>. QED
      <4>1. room' = Synced(move_towards(room, DriftGoal, stride)) /\ room \in Int
        BY <1>3 DEF Drift, Types
      <4>2. move_towards(room, DriftGoal, stride) \in Int
        BY <3>1, <4>1, MovesTowards
      <4>. QED
        BY <4>1, <4>2, SyncedBounds
  <2>2. Types' /\ RunsInPhase'
    BY <1>3, <2>1, SimulateLeaves DEF Drift, Types, RunsInPhase, Phase
  <2>3. SteadyWaits'
    BY <1>3, SteadyCanReach, SimulateLeaves DEF Drift, SteadyWaits
  <2>4. StatusAgrees'
    BY <1>3, SimulateLeaves DEF Drift, StatusAgrees, Types
  <2>. QED
    BY <2>2, <2>3, <2>4, SimulateLeaves
<1>. QED
  BY <1>1, <1>2, <1>3

LEMMA SimulateKeeps ==
  ASSUME IInv, Simulate
  PROVE  IInv'
<1>1. PICK dt \in Elapsed, rate \in Rates :
        LET stride == rate * Smaller(dt, MaxElapsed)
            left == Larger(0, hold_left - dt)
        IN  \/ RunCompressor(stride, left)
            \/ /\ StandStill \/ Hold(left) \/ Drift(stride, left)
               /\ hold_left' = left
  BY DEF Simulate
<1>. DEFINE stride == rate * Smaller(dt, MaxElapsed)
            left == Larger(0, hold_left - dt)
<1>2. Smaller(dt, MaxElapsed) \in Nat /\ rate \in Nat
  BY RatesAssumption, LimitsAreNumbers DEF Smaller
<1>3. stride \in Nat
  BY <1>2
<1>4. left \in Nat
  BY RatesAssumption DEF Larger, IInv, Types
<1>. HIDE DEF stride, left
<1>5. \/ RunCompressor(stride, left)
      \/ /\ StandStill \/ Hold(left) \/ Drift(stride, left)
         /\ hold_left' = left
  BY <1>1 DEF stride, left
<1>. QED
  BY <1>3, <1>4, <1>5, CompressorKeeps, RestKeeps

LEMMA OthersKeep ==
  ASSUME IInv, TakeKeys \/ HandleRequest \/ PressKey \/ Edit \/ UNCHANGED vars
  PROVE  IInv'
<1>. USE DEF IInv, packet, settings, climate, keys
<1>1. CASE TakeKeys
  <2>1. ac_power' \in BOOLEAN /\ ac_mode' \in Mode /\ target' \in Nat /\ steady' \in BOOLEAN
    BY <1>1, LimitsAreNumbers DEF TakeKeys, Types, Mode
  <2>. QED
    BY <1>1, <2>1 DEF TakeKeys, Block, Types, RunsInPhase, SteadyWaits, StatusAgrees
<1>2. CASE HandleRequest
  <2>1. ac_power' \in BOOLEAN /\ ac_mode' \in Mode /\ target' \in Nat /\ steady' \in BOOLEAN
    <3>1. CASE \E on \in BOOLEAN : SetPower(on)
      BY <1>2, <3>1 DEF HandleRequest, SetPower, Types
    <3>2. CASE \E c \in Commands : SetGroup(c)
      <4>1. ac_power' \in BOOLEAN /\ ac_mode' \in Mode /\ target' \in Nat
        BY <3>2, CommandsAssumption DEF SetGroup
      <4>. QED
        BY <1>2, <4>1 DEF HandleRequest, Types
    <3>3. CASE UNCHANGED packet
      BY <1>2, <3>3 DEF HandleRequest, Types
    <3>. QED
      BY <1>2, <3>1, <3>2, <3>3 DEF HandleRequest
  <2>. QED
    <3>1. steady' => steady /\ UNCHANGED packet
      BY <1>2 DEF HandleRequest
    <3>2. pc' = "load" /\ UNCHANGED <<settings, climate, file, fresh, keys>>
      BY <1>2 DEF HandleRequest, Block
    <3>3. Types' /\ RunsInPhase'
      BY <2>1, <3>2 DEF Types, RunsInPhase
    <3>. QED
      BY <3>1, <3>2, <3>3 DEF SteadyWaits, StatusAgrees
<1>3. CASE PressKey
  BY <1>3 DEF PressKey, Types, RunsInPhase, SteadyWaits, StatusAgrees, Synced, Clamp
<1>4. CASE Edit
  BY <1>4 DEF Edit, Types, RunsInPhase, SteadyWaits, StatusAgrees, Synced, Clamp
<1>5. CASE UNCHANGED vars
  BY <1>5 DEF vars, Types, RunsInPhase, SteadyWaits, StatusAgrees, Synced, Clamp
<1>. QED
  BY <1>1, <1>2, <1>3, <1>4, <1>5

-----------------------------------------------------------------------------
(* The theorems                                                            *)

\* The invariant from which the others follow: settings and climate have their
\* types, what is published agrees, and a steady compressor waits for a reason.
THEOREM RoomInvariant == Spec => []IInv
<1>1. IInv /\ [Next]_vars => IInv'
  BY LoadKeeps, SimulateKeeps, OthersKeep DEF Next, Iterate
<1>. QED
  BY InitIInv, <1>1, PTL DEF Spec

\* The room never leaves the limits of sync_room, and every setting keeps its
\* type, whatever the control file, the peer and the keys do.
THEOREM TypesAlwaysHold == Spec => []TypeOK
<1>1. IInv => TypeOK
  BY DEF IInv, Types, TypeOK
<1>. QED
  BY RoomInvariant, <1>1, PTL

\* What write_status publishes always agrees with itself.
THEOREM StatusAlwaysAgrees == Spec => []StatusAgrees
<1>1. IInv => StatusAgrees
  BY DEF IInv
<1>. QED
  BY RoomInvariant, <1>1, PTL

\* The compressor starts again only after the gap, for every hold time, drift,
\* hysteresis, rate and mode.
THEOREM CompressorNeverShortCycles == Spec => NoShortCycle
<1>1. ASSUME IInv, [Next]_vars, compressor_active', ~compressor_active, steady
      PROVE  Distance(room, target) >= hysteresis
  <2>1. Simulate
    BY <1>1 DEF Next, Iterate, LoadControl, TakeKeys, HandleRequest, PressKey, Edit,
                vars, climate
  <2>2. WantsCool \/ WantsHeat
    BY <1>1, <2>1 DEF Simulate, RunCompressor, StandStill, Hold, Drift
  <2>3. phase = "PASSIVE_DRIFT"
    BY <1>1, <2>2 DEF IInv, SteadyWaits, WantsCool, WantsHeat, Types
  <2>. QED
    BY <2>2, <2>3, <1>1 DEF IInv, Types, WantsCool, WantsHeat, Distance, Larger, Smaller
<1>2. IInv /\ [Next]_vars =>
        [compressor_active' /\ ~compressor_active /\ steady =>
           Distance(room, target) >= hysteresis]_vars
  BY <1>1
<1>. QED
  BY RoomInvariant, <1>2, PTL DEF Spec, NoShortCycle

-----------------------------------------------------------------------------
(* How far the room moves                                                  *)

\* Between two temperatures that sync_room leaves alone, it makes no step longer.
LEMMA SyncedMovesLess ==
  ASSUME NEW x \in 0 .. MaxRoom, NEW goal \in Int, NEW stride \in Nat
  PROVE  Distance(Synced(move_towards(x, goal, stride)), x) <= stride
<1>. DEFINE moved == move_towards(x, goal, stride)
<1>1. moved \in Int /\ moved <= x + stride /\ moved >= x - stride
  BY DEF move_towards, Larger, Smaller
<1>. HIDE DEF moved
<1>2. Distance(Synced(moved), x) <= stride
  BY <1>1, LimitsAreNumbers DEF Distance, Synced, Clamp, Larger, Smaller
<1>. QED
  BY <1>2 DEF moved

\* One iteration of simulate(), with the stride it takes and the hold that is left.
LEMMA SimulateStrides ==
  ASSUME IInv, Simulate
  PROVE  \E dt \in Elapsed, rate \in Rates :
           \E stride \in Nat, left \in Nat :
             /\ stride = rate * Smaller(dt, MaxElapsed)
             /\ left <= hold_left
             /\ \/ RunCompressor(stride, left)
                \/ /\ StandStill \/ Hold(left) \/ Drift(stride, left)
                   /\ hold_left' = left
<1>1. PICK dt \in Elapsed, rate \in Rates :
        LET stride == rate * Smaller(dt, MaxElapsed)
            left == Larger(0, hold_left - dt)
        IN  \/ RunCompressor(stride, left)
            \/ /\ StandStill \/ Hold(left) \/ Drift(stride, left)
               /\ hold_left' = left
  BY DEF Simulate
<1>. DEFINE stride == rate * Smaller(dt, MaxElapsed)
            left == Larger(0, hold_left - dt)
<1>2. Smaller(dt, MaxElapsed) \in Nat /\ rate \in Nat
  BY RatesAssumption, LimitsAreNumbers DEF Smaller
<1>3. stride \in Nat
  BY <1>2
<1>4. left \in Nat /\ left <= hold_left
  BY RatesAssumption DEF Larger, IInv, Types
<1>5. \/ RunCompressor(stride, left)
      \/ /\ StandStill \/ Hold(left) \/ Drift(stride, left)
         /\ hold_left' = left
  BY <1>1
<1>6. stride = rate * Smaller(dt, MaxElapsed)
  OBVIOUS
<1>. HIDE DEF stride, left
<1>. QED
  BY <1>3, <1>4, <1>5, <1>6

LEMMA SimulateKeepsSide ==
  ASSUME MoveInv, Simulate
  PROVE  SteadySide' /\ NoHoldInDrift'
<1>. USE DEF MoveInv
<1>1. PICK stride \in Nat, left \in Nat :
        /\ left <= hold_left
        /\ \/ RunCompressor(stride, left)
           \/ /\ StandStill \/ Hold(left) \/ Drift(stride, left)
              /\ hold_left' = left
  BY SimulateStrides
<1>2. UNCHANGED <<target, ac_mode, ac_power, dynamics>> /\ Synced(target)' = Synced(target)
  BY SimulateLeaves
<1>3. CASE RunCompressor(stride, left)
  <2>. DEFINE moved == move_towards(room, target, stride)
  <2>1. /\ room' = Synced(moved)
        /\ IF moved = target
             THEN phase' = "HOLDING"
             ELSE phase' = IF WantsCool THEN "COOLING" ELSE "HEATING"
    BY <1>3 DEF RunCompressor
  <2>2. /\ WantsCool \/ WantsHeat
        /\ WantsCool => ac_mode \in {"auto", "cool"} /\ room > target
        /\ WantsHeat => ac_mode \in {"auto", "heat"} /\ room < target
    BY <1>3 DEF RunCompressor, WantsCool, WantsHeat
  <2>3. /\ moved \in Int /\ room \in Int /\ target \in Int
        /\ room >= target => moved >= target
        /\ room <= target => moved <= target
    <3>. room \in Int /\ target \in Int
      BY DEF IInv, Types
    <3>. QED
      BY MovesTowards
  <2>. HIDE DEF moved
  <2>4. /\ moved = target => room' = Synced(target)
        /\ WantsCool => room' >= Synced(target)
        /\ WantsHeat => room' <= Synced(target)
    BY <2>1, <2>2, <2>3, SyncedMonotonic
  <2>. QED
    BY <1>2, <2>1, <2>2, <2>4 DEF SteadySide, NoHoldInDrift
<1>4. CASE StandStill /\ hold_left' = left
  BY <1>1, <1>2, <1>4 DEF StandStill, SteadySide, NoHoldInDrift, IInv, Types
<1>5. CASE Hold(left) /\ hold_left' = left
  BY <1>2, <1>5 DEF Hold, SteadySide, NoHoldInDrift
<1>6. CASE Drift(stride, left) /\ hold_left' = left
  BY <1>2, <1>6 DEF Drift, SteadySide, NoHoldInDrift
<1>. QED
  BY <1>1, <1>3, <1>4, <1>5, <1>6

LEMMA OthersKeepSide ==
  ASSUME MoveInv, LoadControl \/ TakeKeys \/ HandleRequest \/ PressKey \/ Edit \/ UNCHANGED vars
  PROVE  SteadySide' /\ NoHoldInDrift'
<1>. USE DEF MoveInv, packet, settings, climate, keys
<1>1. UNCHANGED <<phase, hold_left>>
  BY DEF LoadControl, TakeKeys, HandleRequest, PressKey, Edit, vars
<1>2. steady' => steady /\ UNCHANGED <<room, target, ac_mode>>
  <2>1. CASE LoadControl
    BY <2>1 DEF LoadControl
  <2>2. CASE TakeKeys \/ HandleRequest
    BY <2>2 DEF TakeKeys, HandleRequest
  <2>3. CASE PressKey \/ Edit \/ UNCHANGED vars
    BY <2>3 DEF PressKey, Edit, vars
  <2>. QED
    BY <2>1, <2>2, <2>3
<1>. QED
  <2>1. NoHoldInDrift'
    BY <1>1 DEF NoHoldInDrift
  <2>2. SteadySide'
    BY <1>1, <1>2 DEF SteadySide, Synced, Clamp
  <2>. QED
    BY <2>1, <2>2

\* The invariant the room moves by: while no setting changes, the phase that
\* simulate() leaves tells where the room is, and a drift has no hold left.
THEOREM MoveInvariant == Spec => []MoveInv
<1>1. Init => MoveInv
  <2>1. Init => SteadySide /\ NoHoldInDrift
    BY DEF Init, SteadySide, NoHoldInDrift
  <2>. QED
    BY <2>1, InitIInv DEF MoveInv
<1>2. MoveInv /\ [Next]_vars => MoveInv'
  <2>1. IInv /\ [Next]_vars => IInv'
    BY LoadKeeps, SimulateKeeps, OthersKeep DEF Next, Iterate
  <2>. QED
    BY <2>1, SimulateKeepsSide, OthersKeepSide DEF Next, Iterate, MoveInv
<1>. QED
  BY <1>1, <1>2, PTL DEF Spec

\* In a hold that no setting has disturbed, the room is at its target already.
LEMMA SteadyHoldIsStill ==
  ASSUME MoveInv, steady, hold_left > 0, ~WantsCool, ~WantsHeat
  PROVE  room = Synced(target)
<1>. USE DEF MoveInv, IInv, Types, Phase
<1>1. target <= MaxRoom
  BY SteadyCanReach
<1>2. Synced(target) = target
  BY <1>1, SyncedBounds, LimitsAreNumbers
<1>3. phase # "PASSIVE_DRIFT" /\ ac_power
  BY DEF NoHoldInDrift, SteadyWaits
<1>4. phase \in {"COOLING", "HEATING", "HOLDING"}
  BY <1>3 DEF RunsInPhase, SteadyWaits
<1>. QED
  BY <1>2, <1>3, <1>4, LimitsAreNumbers DEF SteadySide, WantsCool, WantsHeat

\* simulate() moves the room no further than the rate allows in the time it
\* counts, or sets it to a target that changed during a hold: for every rate,
\* time step, control file and command, and whatever the settings were before.
THEOREM RoomNeverJumps == Spec => RoomMovesGradually
<1>. DEFINE Gradual ==
       \E dt \in Elapsed, rate \in Rates :
         Distance(room', room) <= rate * Smaller(dt, MaxElapsed)
<1>1. ASSUME MoveInv, [Next]_vars, pc = "simulate"
      PROVE  Gradual \/ MovedAtOnce
  <2>. USE DEF MoveInv
  <2>0. room \in 0 .. MaxRoom /\ hold_left \in Nat
    BY <1>1 DEF IInv, Types
  <2>1. ASSUME NEW dt \in Elapsed, NEW rate \in Rates
        PROVE  rate * Smaller(dt, MaxElapsed) \in Nat
    <3>1. Smaller(dt, MaxElapsed) \in Nat /\ rate \in Nat
      BY RatesAssumption, LimitsAreNumbers DEF Smaller
    <3>. QED
      BY <3>1
  <2>2. CASE room' = room
    <3>1. PICK dt \in Elapsed, rate \in Rates : TRUE
      BY RatesAssumption
    <3>2. Distance(room', room) = 0
      BY <2>0, <2>2 DEF Distance, Larger, Smaller
    <3>3. Distance(room', room) <= rate * Smaller(dt, MaxElapsed)
      BY <2>1, <3>2
    <3>. QED
      BY <3>3
  <2>3. CASE Simulate
    <3>1. PICK dt \in Elapsed, rate \in Rates, stride \in Nat, left \in Nat :
            /\ stride = rate * Smaller(dt, MaxElapsed)
            /\ left <= hold_left
            /\ \/ RunCompressor(stride, left)
               \/ /\ StandStill \/ Hold(left) \/ Drift(stride, left)
                  /\ hold_left' = left
      BY <1>1, <2>3, SimulateStrides
    <3>2. CASE RunCompressor(stride, left)
      <4>1. room' = Synced(move_towards(room, target, stride)) /\ target \in Int
        BY <1>1, <3>2 DEF RunCompressor, IInv, Types
      <4>2. Distance(room', room) <= stride
        BY <2>0, <4>1, SyncedMovesLess
      <4>. QED
        BY <3>1, <4>2
    <3>3. CASE StandStill
      BY <2>2, <3>3 DEF StandStill
    <3>4. CASE Hold(left)
      <4>1. /\ room' = Synced(target) /\ hold_left > 0 /\ ac_power /\ ~compressor_active'
            /\ ~WantsCool /\ ~WantsHeat
        BY <2>0, <3>1, <3>4 DEF Hold
      <4>2. CASE steady
        BY <1>1, <2>2, <4>1, <4>2, SteadyHoldIsStill
      <4>3. CASE ~steady
        BY <4>1, <4>3 DEF MovedAtOnce
      <4>. QED
        BY <4>2, <4>3
    <3>5. CASE Drift(stride, left)
      <4>1. room' = Synced(move_towards(room, DriftGoal, stride))
        BY <3>5 DEF Drift
      <4>2. DriftGoal \in Int
        BY <1>1 DEF DriftGoal, Larger, Smaller, IInv, Types
      <4>3. Distance(room', room) <= stride
        BY <2>0, <4>1, <4>2, SyncedMovesLess
      <4>. QED
        BY <3>1, <4>3
    <3>. QED
      BY <3>1, <3>2, <3>3, <3>4, <3>5
  <2>4. CASE PressKey \/ Edit \/ UNCHANGED vars
    BY <2>2, <2>4 DEF PressKey, Edit, vars, climate
  <2>5. ~LoadControl /\ ~TakeKeys /\ ~HandleRequest
    BY <1>1 DEF LoadControl, TakeKeys, HandleRequest, Block
  <2>. QED
    BY <1>1, <2>3, <2>4, <2>5 DEF Next, Iterate
<1>2. MoveInv /\ [Next]_vars => [pc = "simulate" => Gradual \/ MovedAtOnce]_vars
  BY <1>1
<1>. QED
  BY MoveInvariant, <1>2, PTL DEF Spec, RoomMovesGradually

-----------------------------------------------------------------------------
(* The control file                                                        *)

\* Every name, open file and time is one the requests so far have made.
Shapes ==
  /\ clock \in Nat
  /\ posts \in 0 .. Posts
  /\ text \in [File -> File \cup {Empty}]
  /\ mtime \in [File -> 0 .. clock]
  /\ tmp \in (1 .. posts) \cup {None}
  /\ ctl \in (1 .. posts) \cup {None}
  /\ step \in [Thread -> {"ready", "write", "replace"}]
  /\ post \in [Thread -> (1 .. posts) \cup {None}]
  /\ fd \in [Thread -> (1 .. posts) \cup {None}]
  /\ \A t \in Thread : step[t] # "ready" => fd[t] # None /\ post[t] # None
  /\ control_mtime \in 0 .. clock
  /\ reading \in BOOLEAN
  /\ reading => ctl # None
  /\ overlapped \in BOOLEAN /\ failed \in BOOLEAN /\ torn \in BOOLEAN

\* As long as no two requests overlapped, the temporary file belongs to the one
\* thread that is at work, and is not the control file, which has its text.
Alone ==
  ~overlapped =>
    /\ \A t, u \in Thread : step[t] # "ready" /\ step[u] # "ready" => t = u
    /\ \A t \in Thread : step[t] # "ready" => tmp = fd[t]
    /\ \A t \in Thread : step[t] = "replace" => text[fd[t]] # Empty
    /\ (\A t \in Thread : step[t] = "ready") => tmp = None
    /\ tmp # None => tmp # ctl
    /\ ctl # None => text[ctl] # Empty
    /\ ~torn /\ ~failed

FileInv == Shapes /\ Alone

USE DEF File, Empty

LEMMA InitFileInv == FileInit => FileInv
<1>. SUFFICES ASSUME FileInit PROVE FileInv
  OBVIOUS
<1>. USE BoundsAssumption, NoneAssumption DEF FileInit
<1>1. Shapes
  <2>1. text \in [File -> File \cup {Empty}] /\ mtime \in [File -> 0 .. clock]
    OBVIOUS
  <2>2. /\ step \in [Thread -> {"ready", "write", "replace"}]
        /\ \A t \in Thread : step[t] = "ready"
    OBVIOUS
  <2>3. /\ post \in [Thread -> (1 .. posts) \cup {None}]
        /\ fd \in [Thread -> (1 .. posts) \cup {None}]
    OBVIOUS
  <2>4. /\ reading \in BOOLEAN /\ ~reading
        /\ overlapped \in BOOLEAN /\ failed \in BOOLEAN /\ torn \in BOOLEAN
    OBVIOUS
  <2>5. /\ clock \in Nat /\ posts \in 0 .. Posts /\ control_mtime \in 0 .. clock
        /\ tmp \in (1 .. posts) \cup {None} /\ ctl \in (1 .. posts) \cup {None}
    OBVIOUS
  <2>. HIDE DEF FileInit
  <2>. QED
    BY <2>1, <2>2, <2>3, <2>4, <2>5 DEF Shapes
<1>2. Alone
  BY DEF Alone
<1>. QED
  BY <1>1, <1>2 DEF FileInv

LEMMA BeginKeepsFiles ==
  ASSUME FileInv, NEW t \in Thread, Begin(t)
  PROVE  FileInv'
<1>. USE BoundsAssumption, NoneAssumption
<1>. DEFINE f == IF tmp = None THEN posts + 1 ELSE tmp
<1>1. /\ f \in 1 .. posts + 1 /\ posts + 1 \in 1 .. Posts
      /\ step[t] = "ready"
      /\ tmp' = f /\ fd' = [fd EXCEPT ![t] = f] /\ ctl' = ctl
      /\ posts' = posts + 1
      /\ post' = [post EXCEPT ![t] = posts + 1]
      /\ step' = [step EXCEPT ![t] = "write"]
      /\ fd'[t] = f
  BY DEF Begin, Open, FileInv, Shapes
<1>2. text' = [text EXCEPT ![f] = Empty] /\ mtime' = [mtime EXCEPT ![f] = clock]
  BY <1>1 DEF Begin
<1>3. Shapes'
  BY <1>1, <1>2, SMTT(30) DEF FileInv, Shapes, Begin, simulator
<1>4. Alone'
  <2>. SUFFICES ASSUME ~overlapped' PROVE Alone'
    BY DEF Alone
  <2>1. ~overlapped /\ \A u \in Thread : step[u] = "ready"
    BY DEF Begin, FileInv, Shapes
  <2>2. tmp = None /\ f = posts + 1 /\ (ctl # None => text[ctl] # Empty) /\ ~torn /\ ~failed
    BY <2>1 DEF FileInv, Alone
  <2>3. ctl # f
    BY <2>2 DEF FileInv, Shapes
  <2>4. ctl' # None => text'[ctl'] # Empty
    BY <1>1, <1>2, <2>2, <2>3 DEF FileInv, Shapes
  <2>5. \A u \in Thread : u # t => step'[u] = "ready"
    BY <1>1, <2>1 DEF FileInv, Shapes
  <2>6. step'[t] = "write"
    BY <1>1 DEF FileInv, Shapes
  <2>. QED
    BY <1>1, <2>2, <2>3, <2>4, <2>5, <2>6 DEF Alone, Begin
<1>. QED
  BY <1>3, <1>4 DEF FileInv

LEMMA WriteKeepsFiles ==
  ASSUME FileInv, NEW t \in Thread, Write(t)
  PROVE  FileInv'
<1>. USE BoundsAssumption, NoneAssumption
<1>1. step[t] = "write" /\ fd[t] \in 1 .. posts /\ post[t] \in 1 .. posts
  BY DEF Write, FileInv, Shapes
<1>2. Shapes'
  BY <1>1 DEF FileInv, Shapes, Write, simulator
<1>3. Alone'
  <2>. SUFFICES ASSUME ~overlapped' PROVE Alone'
    BY DEF Alone
  <2>1. tmp = fd[t] /\ ctl # fd[t] /\ \A u \in Thread : u # t => step[u] = "ready"
    BY <1>1 DEF FileInv, Alone, Write, Shapes
  <2>2. \A u \in Thread : u # t => step'[u] = "ready"
    BY <2>1 DEF Write, FileInv, Shapes
  <2>3. step'[t] = "replace" /\ text'[fd[t]] # Empty
    BY <1>1 DEF Write, FileInv, Shapes
  <2>4. ctl # None => text'[ctl] = text[ctl]
    BY <1>1, <2>1 DEF Write, FileInv, Shapes
  <2>. QED
    BY <1>1, <2>1, <2>2, <2>3, <2>4 DEF FileInv, Alone, Write
<1>. QED
  BY <1>2, <1>3 DEF FileInv

LEMMA ReplaceKeepsFiles ==
  ASSUME FileInv, NEW t \in Thread, Replace(t)
  PROVE  FileInv'
<1>. USE BoundsAssumption, NoneAssumption
<1>1. Shapes'
  BY DEF FileInv, Shapes, Replace, simulator
<1>2. Alone'
  <2>. SUFFICES ASSUME ~overlapped' PROVE Alone'
    BY DEF Alone
  <2>1. /\ tmp = fd[t] /\ tmp # None /\ text[tmp] # Empty
        /\ \A u \in Thread : u # t => step[u] = "ready"
    BY DEF FileInv, Alone, Replace, Shapes
  <2>2. \A u \in Thread : step'[u] = "ready"
    BY <2>1 DEF Replace, FileInv, Shapes
  <2>. QED
    BY <2>1, <2>2 DEF FileInv, Alone, Replace
<1>. QED
  BY <1>1, <1>2 DEF FileInv

LEMMA OthersKeepFiles ==
  ASSUME FileInv, Stat \/ Read \/ Tick \/ UNCHANGED file_vars
  PROVE  FileInv'
<1>. USE BoundsAssumption, NoneAssumption
<1>1. CASE Stat
  BY <1>1 DEF FileInv, Shapes, Alone, Stat, Newer, console
<1>2. CASE Read
  BY <1>2 DEF FileInv, Shapes, Alone, Read, console
<1>3. CASE Tick
  BY <1>3 DEF FileInv, Shapes, Alone, Tick, console, simulator
<1>4. CASE UNCHANGED file_vars
  BY <1>4 DEF FileInv, Shapes, Alone, file_vars, console, simulator
<1>. QED
  BY <1>1, <1>2, <1>3, <1>4

\* Every reachable state satisfies the inductive invariant: as long as requests
\* do not overlap, the temporary file belongs to one of them.
THEOREM FileInvariant == FileSpec => []FileInv
<1>1. FileInv /\ [FileNext]_file_vars => FileInv'
  BY BeginKeepsFiles, WriteKeepsFiles, ReplaceKeepsFiles, OthersKeepFiles DEF FileNext, Console
<1>. QED
  BY InitFileInv, <1>1, PTL DEF FileSpec

\* Names and open files are always those of requests, and the control file has its
\* text unless requests overlapped.
THEOREM FilesAlwaysFit == FileSpec => []FilesFitTogether
<1>1. FileInv => FilesFitTogether
  BY BoundsAssumption, NoneAssumption DEF FileInv, Shapes, Alone, FilesFitTogether
<1>. QED
  BY FileInvariant, <1>1, PTL

\* With any number of threads, a rename fails or a file is read before its text
\* only after two requests overlapped (write_control's shared temporary name).
THEOREM OverlapIsNeeded == FileSpec => []TroubleNeedsOverlap
<1>1. FileInv => TroubleNeedsOverlap
  BY DEF FileInv, Shapes, Alone, TroubleNeedsOverlap
<1>. QED
  BY FileInvariant, <1>1, PTL

-----------------------------------------------------------------------------
(* The control file implements SharedSettings until requests overlap       *)

\* A step that does not overlap puts settings, applies them, or is not seen.
LEMMA StepRefines ==
  ASSUME FileInv, ~overlapped, [FileNext]_file_vars, ~overlapped'
  PROVE  [Shared!Next]_<<InFile, applied>>
<1>. USE BoundsAssumption, NoneAssumption
<1>1. ASSUME NEW t \in Thread, Begin(t) PROVE UNCHANGED <<InFile, applied>>
  <2>1. tmp = None /\ fd'[t] = posts + 1 /\ ctl' = ctl
    BY <1>1 DEF Begin, Open, FileInv, Shapes, Alone
  <2>2. ctl # None => text'[ctl] = text[ctl]
    BY <1>1, <2>1 DEF Begin, FileInv, Shapes
  <2>. QED
    BY <1>1, <2>1, <2>2 DEF Begin, InFile, simulator
<1>2. ASSUME NEW t \in Thread, Write(t) PROVE UNCHANGED <<InFile, applied>>
  <2>1. fd[t] \in 1 .. posts /\ ctl # fd[t]
    BY <1>2 DEF Write, FileInv, Shapes, Alone
  <2>2. ctl # None => text'[ctl] = text[ctl]
    BY <1>2, <2>1 DEF Write, FileInv, Shapes
  <2>. QED
    BY <1>2, <2>2 DEF Write, InFile, simulator
<1>3. ASSUME NEW t \in Thread, Replace(t) PROVE Shared!Put
  <2>1. tmp \in 1 .. posts /\ text[tmp] # Empty
    BY <1>3 DEF Replace, FileInv, Shapes, Alone
  <2>2. InFile' = text[tmp] /\ text[tmp] \in File
    BY <1>3, <2>1 DEF Replace, InFile, FileInv, Shapes
  <2>. QED
    BY <1>3, <2>2 DEF Replace, Shared!Put, simulator
<1>4. ASSUME Read PROVE Shared!Apply
  <2>1. ctl # None /\ text[ctl] # Empty /\ text[ctl] \in File /\ InFile = text[ctl]
    BY <1>4 DEF Read, FileInv, Shapes, Alone, InFile
  <2>. QED
    BY <1>4, <2>1 DEF Read, console, InFile, Shared!Apply
<1>5. Stat \/ Tick \/ UNCHANGED file_vars => UNCHANGED <<InFile, applied>>
  BY DEF Stat, Tick, file_vars, console, simulator, InFile
<1>. QED
  BY <1>1, <1>2, <1>3, <1>4, <1>5 DEF FileNext, Console, Shared!Next

\* With any number of threads, the files, names and times of the console and the
\* simulator together implement settings that are put and applied as a whole, up
\* to the first overlap of two requests.
THEOREM FileImplements == FileSpec => ImplementsSharedSettings
<1>. DEFINE Refines == ~overlapped' => [Shared!Next]_<<InFile, applied>>
<1>1. FileInit => Shared!Init
  BY DEF FileInit, Shared!Init, InFile
<1>2. FileInv /\ [FileNext]_file_vars => [Refines]_file_vars
  <2>. SUFFICES ASSUME FileInv, [FileNext]_file_vars, ~overlapped'
                PROVE  [Shared!Next]_<<InFile, applied>>
    OBVIOUS
  <2>1. ~overlapped
    BY DEF FileNext, Console, Begin, Write, Replace, Stat, Read, Tick, file_vars
  <2>. QED
    BY <2>1, StepRefines
<1>. QED
  BY <1>1, <1>2, FileInvariant, PTL DEF FileSpec, ImplementsSharedSettings

-----------------------------------------------------------------------------
(* No settings are overlooked                                              *)

\* While requests do not overlap and are a second apart, files get newer: the one
\* that a thread is at work on is newer than the control file, and that is not
\* older than the time that was read last.
Newest ==
  /\ clock \in 1 .. Seconds
  /\ ~overlapped /\ MinGap > 0 =>
       /\ ctl = None => control_mtime = 0 /\ applied = None
       /\ ctl # None => control_mtime <= mtime[ctl]
       /\ \A t \in Thread : step[t] # "ready" =>
            mtime[fd[t]] > control_mtime /\ (ctl # None => mtime[fd[t]] > mtime[ctl])
       /\ ctl # None /\ ~reading => applied = text[ctl] \/ mtime[ctl] # control_mtime

\* LastWrite is the time of the newest file.
LEMMA LastWriteIsLast ==
  ASSUME mtime \in [File -> 0 .. Seconds]
  PROVE  LastWrite \in Nat /\ \A f \in File : mtime[f] <= LastWrite
<1>. USE BoundsAssumption
<1>. DEFINE Bound == {s \in 0 .. Seconds : \A f \in File : mtime[f] <= s}
<1>1. Bound \subseteq Nat /\ Seconds \in Bound
  OBVIOUS
<1>2. PICK m \in Bound : \A k \in Bound : ~ (<<k, m>> \in OpToRel(<, Nat))
  BY <1>1, NatLessThanWellFounded, WFMin
<1>3. \A k \in Bound : m <= k
  <2>1. SUFFICES ASSUME NEW k \in Bound PROVE m <= k
    OBVIOUS
  <2>2. k \in Nat /\ m \in Nat /\ ~(k < m)
    BY <1>1, <1>2 DEF OpToRel
  <2>. QED
    BY <2>2
<1>4. m = 0 \/ \E f \in File : mtime[f] = m
  <2>1. SUFFICES ASSUME m # 0, \A f \in File : mtime[f] # m PROVE FALSE
    OBVIOUS
  <2>2. m - 1 \in Bound
    BY <2>1
  <2>. QED
    BY <2>2, <1>3
<1>. DEFINE Last(s) == /\ \A f \in File : mtime[f] <= s
                       /\ s = 0 \/ \E f \in File : mtime[f] = s
<1>5. m \in 0 .. Seconds /\ Last(m)
  BY <1>4
<1>6. LastWrite = CHOOSE s \in 0 .. Seconds : Last(s)
  BY DEF LastWrite
<1>. HIDE DEF Last
<1>7. LastWrite \in 0 .. Seconds /\ Last(LastWrite)
  BY <1>5, <1>6
<1>. QED
  BY <1>7 DEF Last

\* Begin creates a file that is newer than all others.
LEMMA BeginKeepsNewest ==
  ASSUME FileInv, Newest, NEW t \in Thread, Begin(t)
  PROVE  Newest'
<1>. USE BoundsAssumption, NoneAssumption
<1>0. clock' = clock /\ UNCHANGED <<control_mtime, reading, applied>>
  BY DEF Begin, simulator
<1>. SUFFICES ASSUME ~overlapped', MinGap > 0 PROVE Newest'
  BY <1>0 DEF Newest
<1>1. ~overlapped /\ tmp = None /\ \A u \in Thread : step[u] = "ready"
  BY DEF Begin, FileInv, Shapes, Alone
<1>2. /\ fd' = [fd EXCEPT ![t] = posts + 1] /\ ctl' = ctl /\ fd'[t] = posts + 1
      /\ posts + 1 \in File /\ ctl # posts + 1
      /\ step' = [step EXCEPT ![t] = "write"]
  BY <1>1 DEF Begin, Open, FileInv, Shapes
<1>3. /\ mtime' = [mtime EXCEPT ![posts + 1] = clock] /\ text' = [text EXCEPT ![posts + 1] = Empty]
  BY <1>2 DEF Begin
<1>4. mtime'[posts + 1] = clock
  BY <1>2, <1>3 DEF FileInv, Shapes
<1>5. ctl # None => ctl \in File /\ mtime'[ctl] = mtime[ctl] /\ text'[ctl] = text[ctl]
  BY <1>2, <1>3 DEF FileInv, Shapes
<1>6. \A u \in Thread : step'[u] # "ready" => u = t
  BY <1>1, <1>2 DEF FileInv, Shapes
<1>7. ctl # None => clock > mtime[ctl]
  <2>1. SUFFICES ASSUME ctl # None PROVE clock > mtime[ctl]
    OBVIOUS
  <2>2. posts # 0 /\ ctl \in File
    BY <2>1 DEF FileInv, Shapes
  <2>3. clock >= LastWrite + MinGap
    BY <2>2 DEF Begin
  <2>4. mtime \in [File -> 0 .. Seconds]
    BY DEF FileInv, Shapes, Newest
  <2>5. LastWrite \in Nat /\ mtime[ctl] <= LastWrite /\ mtime[ctl] \in Nat
    BY <2>2, <2>4, LastWriteIsLast
  <2>6. clock \in Nat
    BY DEF Newest
  <2>. QED
    BY <2>3, <2>5, <2>6
<1>8. clock > control_mtime
  <2>1. control_mtime \in Nat /\ clock \in Nat \ {0} /\ (ctl # None => mtime[ctl] \in Nat)
    BY <1>5 DEF FileInv, Shapes, Newest
  <2>. QED
    BY <1>1, <1>7, <2>1 DEF Newest
<1>. QED
  BY <1>0, <1>1, <1>2, <1>4, <1>5, <1>6, <1>7, <1>8 DEF Newest

LEMMA WriteKeepsNewest ==
  ASSUME FileInv, Newest, NEW t \in Thread, Write(t)
  PROVE  Newest'
<1>. USE BoundsAssumption, NoneAssumption
<1>0. UNCHANGED <<clock, ctl, fd, control_mtime, reading, applied, overlapped>>
  BY DEF Write, simulator
<1>. SUFFICES ASSUME ~overlapped, MinGap > 0 PROVE Newest'
  BY <1>0 DEF Newest
<1>1. /\ step[t] = "write" /\ fd[t] \in File /\ ctl # fd[t] /\ step' = [step EXCEPT ![t] = "replace"]
      /\ \A u \in Thread : u # t => step[u] = "ready"
  BY DEF FileInv, Alone, Write, Shapes
<1>2. mtime' = [mtime EXCEPT ![fd[t]] = clock] /\ text' = [text EXCEPT ![fd[t]] = post[t]]
  BY DEF Write
<1>3. mtime'[fd[t]] = clock /\ clock >= mtime[fd[t]] /\ mtime[fd[t]] \in Nat
  BY <1>1, <1>2 DEF FileInv, Shapes
<1>4. ctl # None => mtime'[ctl] = mtime[ctl] /\ text'[ctl] = text[ctl] /\ mtime[ctl] \in Nat
  BY <1>1, <1>2 DEF FileInv, Shapes
<1>5. \A u \in Thread : step'[u] # "ready" => u = t
  BY <1>1 DEF FileInv, Shapes
<1>6. mtime[fd[t]] > control_mtime /\ (ctl # None => mtime[fd[t]] > mtime[ctl])
  BY <1>1 DEF Newest
<1>7. control_mtime \in Nat /\ clock \in Nat
  BY DEF FileInv, Shapes
<1>8. clock > control_mtime /\ (ctl # None => clock > mtime[ctl])
  BY <1>3, <1>4, <1>6, <1>7
<1>. QED
  BY <1>0, <1>3, <1>4, <1>5, <1>8 DEF Newest

\* A file that gets the name is newer than the time that was read last.
LEMMA ReplaceKeepsNewest ==
  ASSUME FileInv, Newest, NEW t \in Thread, Replace(t)
  PROVE  Newest'
<1>. USE BoundsAssumption, NoneAssumption
<1>0. UNCHANGED <<clock, fd, mtime, text, control_mtime, reading, applied, overlapped>>
  BY DEF Replace, simulator
<1>. SUFFICES ASSUME ~overlapped, MinGap > 0 PROVE Newest'
  BY <1>0 DEF Newest
<1>1. /\ step[t] = "replace" /\ tmp = fd[t] /\ tmp # None /\ tmp \in File /\ ctl' = tmp
      /\ \A u \in Thread : u # t => step[u] = "ready"
      /\ step' = [step EXCEPT ![t] = "ready"]
  BY DEF FileInv, Alone, Replace, Shapes
<1>2. \A u \in Thread : step'[u] = "ready"
  BY <1>1 DEF FileInv, Shapes
<1>3. mtime[tmp] > control_mtime /\ mtime[tmp] \in Nat /\ control_mtime \in Nat
  BY <1>1 DEF Newest, FileInv, Shapes
<1>. QED
  BY <1>0, <1>1, <1>2, <1>3 DEF Newest

LEMMA OthersKeepNewest ==
  ASSUME FileInv, Newest, Stat \/ Read \/ Tick \/ UNCHANGED file_vars
  PROVE  Newest'
<1>. USE BoundsAssumption, NoneAssumption
<1>1. CASE Stat
  <2>1. /\ UNCHANGED <<clock, tmp, ctl, text, mtime, step, fd, applied, overlapped>>
        /\ ctl # None /\ control_mtime' = mtime[ctl] /\ reading'
    BY <1>1 DEF Stat, Newer, console
  <2>2. mtime[ctl] \in Nat
    BY <2>1 DEF FileInv, Shapes
  <2>. QED
    BY <2>1, <2>2 DEF Newest
<1>2. CASE Read
  <2>1. /\ UNCHANGED <<clock, tmp, ctl, text, mtime, step, fd, control_mtime, overlapped>>
        /\ ctl # None /\ (~overlapped => text[ctl] # Empty /\ applied' = text[ctl])
    BY <1>2 DEF Read, console, FileInv, Shapes, Alone
  <2>. QED
    BY <2>1 DEF Newest
<1>3. CASE Tick
  <2>1. /\ UNCHANGED <<tmp, ctl, text, mtime, step, fd, control_mtime, reading, applied, overlapped>>
        /\ clock' \in 1 .. Seconds
    BY <1>3 DEF Tick, console, simulator, Newest
  <2>. QED
    BY <2>1 DEF Newest
<1>4. CASE UNCHANGED file_vars
  BY <1>4 DEF file_vars, console, simulator, Newest
<1>. QED
  BY <1>1, <1>2, <1>3, <1>4

\* While requests do not overlap and are a second apart, what the control file says
\* is never overlooked: it was applied, is being read, or has a time that
\* load_control will find changed.  It is what FollowsFile rests on besides the
\* polling.
THEOREM NothingOverlooked ==
  FileSpec => [](~overlapped /\ MinGap > 0 /\ ~reading => applied = InFile \/ Newer)
<1>1. FileInit => Newest
  BY BoundsAssumption DEF FileInit, Newest
<1>2. FileInv /\ Newest /\ [FileNext]_file_vars => Newest'
  BY BeginKeepsNewest, WriteKeepsNewest, ReplaceKeepsNewest, OthersKeepNewest
  DEF FileNext, Console
<1>3. FileInv /\ Newest =>
        (~overlapped /\ MinGap > 0 /\ ~reading => applied = InFile \/ Newer)
  BY DEF FileInv, Newest, Newer, InFile
<1>. QED
  BY <1>1, <1>2, <1>3, FileInvariant, PTL DEF FileSpec
=============================================================================
