---------------------------- MODULE MCTslProfile ----------------------------
(* Two devices of one type and version, one other version.                 *)
EXTENDS TslProfile

CONSTANTS d1, d2, v1, v2

MCLoaded == <<d2>>
MCVer0 == [d \in {d1, d2} |-> v1]
=============================================================================
