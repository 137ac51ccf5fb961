---------------------------- MODULE MCIotSession ----------------------------
(* TLC instance of IotSession: two servers, at most three ez_iot_start.     *)
EXTENDS IotSession

CONSTANTS s1, s2

MCServers == {s1, s2}
=============================================================================
