---------------------------- MODULE MCProtocolLink ----------------------------
(***************************************************************************)
(* ProtocolLink for TLC: two requests and a notice of the module, one      *)
(* request of the device.                                                  *)
(***************************************************************************)
EXTENDS ProtocolLink

CONSTANTS m1, m2, n1, d1

TwoRequests == {m1, m2}
OneNotice == {n1}
OneAsks == {d1}
=============================================================================
