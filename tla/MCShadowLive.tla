---------------------------- MODULE MCShadowLive ----------------------------
(* One property; calls, link events and data in are bounded in number. *)
EXTENDS ShadowCore

CONSTANTS k1,
          NewsMax           \* bound: how many of News happen

VARIABLE news

MCKeys == {k1}

MCNext == \/ News /\ news < NewsMax /\ news' = news + 1
          \/ Work /\ UNCHANGED news

MCInit == Init /\ news = 0

MCLiveSpec == MCInit /\ [][MCNext]_<<vars, news>> /\ ShFairness
=============================================================================
