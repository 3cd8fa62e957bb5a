---------------------------- MODULE MCPushService ----------------------------
(* Instances of PushService for TLC. *)
EXTENDS PushService

CONSTANTS u1, s1, d1, d2

MCUdp    == {u1}
MCSerial == {s1}
MCNoone  == {}
MCData   == {d1, d2}
=============================================================================
