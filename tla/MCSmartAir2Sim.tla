--------------------------- MODULE MCSmartAir2Sim ---------------------------
(* Small instances of SmartAir2Sim.                                         *)
EXTENDS SmartAir2Sim

\* What the console writes, with few values.
Written(mode, t, drift, dyn) ==
  [power |-> TRUE, mode |-> mode, target_temperature |-> t,
   room_temperature |-> 5, room_drift_temperature |-> drift,
   ambient_temperature |-> drift, dynamics |-> dyn, hold_seconds |-> 2,
   drift_delta |-> 2, hysteresis |-> 2]

\* A cooling and a heating demo, the model switched off, and files by hand: one
\* key, values that are clamped, and a hysteresis larger than the drift.
MCFiles ==
  {Written("cool", 3, 7, TRUE), Written("heat", 6, 1, TRUE),
   Written("auto", 4, 7, FALSE), [mode |-> "dry"],
   [mode |-> "auto", target_temperature |-> 99, hysteresis |-> 3,
    drift_delta |-> 0, hold_seconds |-> 0]}

MCCommands == [power : {TRUE}, mode : {"auto", "cool", "heat", "fan"}, target : {2, 5, 9}]
=============================================================================
