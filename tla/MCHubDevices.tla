---------------------------- MODULE MCHubDevices ----------------------------
(* TLC instance of HubDevices: two devices, two versions.                    *)
EXTENDS HubDevices

CONSTANTS d1, d2, v1, v2

MCDevs == {d1, d2}
MCVers == {v1, v2}
=============================================================================
