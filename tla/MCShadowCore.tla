---------------------------- MODULE MCShadowCore ----------------------------
(* One property, nothing bounded but the reports on their way. *)
EXTENDS ShadowCore
CONSTANT k1
MCKeys == {k1}
=============================================================================
