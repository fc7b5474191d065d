-------------------------- MODULE MCProtocolHandler --------------------------
(***************************************************************************)
(* ProtocolHandler for TLC: two messages, one frame value (loop() tells    *)
(* frames apart by nothing), intervals of a few units of time.             *)
(***************************************************************************)
EXTENDS ProtocolHandler

CONSTANTS m1, m2, f1

TwoMessages == {m1, m2}
OneFrame == {f1}
=============================================================================
