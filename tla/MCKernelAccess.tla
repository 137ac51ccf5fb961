--------------------------- MODULE MCKernelAccess ---------------------------
(* TLC instance of KernelAccess: two LBS servers, scaled-down retry limits. *)
EXTENDS KernelAccessRefines

CONSTANTS s1, s2

MCServers == {s1, s2}
=============================================================================
