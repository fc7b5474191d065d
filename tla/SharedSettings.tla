--------------------------- MODULE SharedSettings ---------------------------
(***************************************************************************)
(* What the control file of the SmartAir2 simulator is for: the console    *)
(* replaces settings as a whole, and the simulator applies them as a       *)
(* whole, some time after each replacement.                                *)
(***************************************************************************)
CONSTANTS Settings, None

VARIABLES
  current,  \* the settings last put into the file
  applied   \* the settings last applied

Init == current = None /\ applied = None

Put == current' \in Settings /\ UNCHANGED applied

Apply == current # None /\ applied' = current /\ UNCHANGED current

Next == Put \/ Apply

Spec == Init /\ [][Next]_<<current, applied>>

FairSpec == Spec /\ WF_<<current, applied>>(Apply)
=============================================================================
