---------------------------- MODULE MCHonControl ----------------------------
(* Small instances of HonControl.                                           *)
EXTENDS HonControl

\* Two packets: everything as at the start, and everything different.
MCGroups ==
  {[f \in Followed |-> init_ac_state[f]],
   [f \in Followed |-> CASE f = "set_point" -> PairingSetPoint
                         [] f = "fan_mode"  -> 1
                         [] OTHER           -> 1 - init_ac_state[f]]}
=============================================================================
