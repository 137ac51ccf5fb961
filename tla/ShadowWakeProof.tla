--------------------------- MODULE ShadowWakeProof ---------------------------
(***************************************************************************)
(* Where the semaphore keeps a post (SemKeepsPost) the shadow thread never *)
(* sleeps over work.  The invariant is WakeInv: whoever leaves work behind *)
(* is about to post, or the post is kept.                                  *)
(***************************************************************************)
EXTENDS ShadowCoreProof

\* The shadow thread starts at the top, without a flag.
LEMMA WakeInit == Init => WakeInv
  BY DEF Init, WakeInv

\* The other threads cannot hurt as long as they end with a post or owe one.
LEMMA PostedSuffices ==
  ASSUME Posted'
  PROVE  WakeInv'
  BY DEF WakeInv

\* Every step of the application's calls owes a post, the last one makes it.
LEMMA AppWakes ==
  ASSUME SemKeepsPost, ShadowInv, AppStart \/ AppCompletes
  PROVE  WakeInv'
<1>1. ASSUME NEW ks \in SUBSET Keys, register_v3(ks)
      PROVE  app'.step # "idle"
  BY <1>1 DEF register_v3
<1>2. ASSUME NEW k \in Keys, push_v3(k)
      PROVE  app'.step # "idle"
  BY <1>2 DEF push_v3
<1>3. ASSUME NEW value \in BOOLEAN, shadow_core_propertie_changed(value)
      PROVE  app'.step # "idle"
  BY <1>3 DEF shadow_core_propertie_changed
<1>4. CASE event_report \/ event_flag
  <2>1. app \in [step : AppSteps, key : Keys \cup {NoKey}]
    BY DEF ShadowInv, ShadowTypeOK
  <2>2. app'.step \in {"flag", "post"}
    BY <1>4, <2>1 DEF event_report, event_flag
  <2> QED
    BY <2>2, PostedSuffices DEF Posted
<1>5. CASE event_post
  BY <1>5, PostedSuffices DEF event_post, Post, Posted
<1> QED
  BY <1>1, <1>2, <1>3, <1>4, <1>5, PostedSuffices
  DEF AppStart, AppCompletes, Posted

\* So does every callback of the yield thread, but the loss of a receipt,
\* which changes nothing the shadow thread looks at.
LEMMA KernelWakes ==
  ASSUME SemKeepsPost, ShadowInv, WakeInv,
         LinkEvents \/ event_notice \/ DataIn \/ Receipts
  PROVE  WakeInv'
<1>1. CASE LinkEvents \/ DataIn
  <2>1. kernel' # "idle"
    BY <1>1
    DEF LinkEvents, event_online, event_break, event_reconnect,
        event_switchover, event_cb, DataIn, shadow_reply2query, shadow_set2dev
  <2> QED
    BY <2>1, PostedSuffices DEF Posted
<1>2. CASE event_notice
  BY <1>2, PostedSuffices DEF event_notice, Post, Posted
<1>3. ASSUME NEW k \in Keys, NEW ok \in BOOLEAN, shadow_reply2report(k, ok)
      PROVE  WakeInv'
  <2>1. kernel' # "idle"
    BY <1>3 DEF shadow_reply2report
  <2> QED
    BY <2>1, PostedSuffices DEF Posted
<1>4. ASSUME NEW k \in Keys, receipt_lost(k)
      PROVE  WakeInv'
  BY <1>4
  DEF receipt_lost, WakeInv, Posted, Unsent, Registered, sharedVars, treeVars,
      KernelRests, threadVars
<1> QED
  BY <1>1, <1>2, <1>3, <1>4 DEF Receipts, ReportOver

\* A walk that lets the round go on leaves nothing unsent behind.
LEMMA WalkLeavesNothing ==
  ASSUME ShadowInv, NEW expired \in SUBSET Registered,
         NEW answering \in SUBSET Registered,
         NEW walked \in SUBSET Registered, NEW unsent \in SUBSET Registered,
         shadow_proc_report(expired, answering, walked, unsent),
         walked = Registered \/ unsent # {}
  PROVE  pc' = "advance" => ~Unsent'
<1> DEFINE due == {k \in walked : Due(k, expired)}
           sent == {k \in due : HasValue(k, answering)}
           dropped == due \ sent
<1> SUFFICES ASSUME pc' = "advance", NEW k \in Registered
             PROVE  /\ Registered' = Registered
                    /\ node'[k].need_report => node'[k].timer
  BY DEF Unsent, shadow_proc_report, Registered
<1>1. Registered' = Registered
  BY DEF shadow_proc_report, Registered
<1>2. /\ unsent = {} /\ walked = Registered
      /\ \A w \in Registered : ~Waiting(w, expired)
  BY DEF shadow_proc_report, RoundResult
<1>3. /\ node'[k] = Reported(k, sent, dropped, unsent)
      /\ node[k] \in KeyNodes
  BY DEF shadow_proc_report, ShadowInv, ShadowTypeOK
<1>4. k \in sent => k \notin dropped
  OBVIOUS
<1>5. node[k].need_report <=> k \in sent \/ k \in dropped
  BY <1>2 DEF Due
<1> HIDE DEF due, sent, dropped
<1>6. k \notin unsent
  BY <1>2
<1>7. CASE k \in sent
  <2>1. node'[k] = [node[k] EXCEPT !.timer = TRUE]
    BY <1>3, <1>4, <1>6, <1>7 DEF Reported
  <2> QED
    BY <1>1, <1>3, <2>1 DEF KeyNodes
<1>8. CASE k \in dropped
  <2>1. node'[k] = [node[k] EXCEPT !.timer = FALSE, !.need_report = FALSE]
    BY <1>3, <1>4, <1>6, <1>8 DEF Reported
  <2> QED
    BY <1>1, <1>3, <2>1 DEF KeyNodes
<1>9. CASE k \notin sent /\ k \notin dropped
  <2>1. node'[k] = node[k]
    BY <1>3, <1>6, <1>9 DEF Reported
  <2> QED
    BY <1>1, <1>5, <1>9, <2>1
<1> QED
  BY <1>7, <1>8, <1>9

\* The shadow thread takes a post only before it looks at everything again.
LEMMA ThreadStaysAwake ==
  ASSUME ShadowInv, WakeInv, ShadowThread
  PROVE  WakeInv'
<1> USE DEF WakeInv, Posted, Others, treeVars, indexVars, ghostVars
<1>1. CASE yeild_top
  BY <1>1 DEF yeild_top, Unsent, Registered
<1>2. CASE wait_posted \/ wait_timeout
  BY <1>2 DEF wait_posted, wait_timeout
<1>3. CASE check_status_update
  <2>1. /\ UNCHANGED flags
        /\ pc' = IF flags = {} THEN "walk" ELSE "clear"
    BY <1>3 DEF check_status_update
  <2> QED
    BY <2>1
<1>4. CASE check_status_clear
  BY <1>4 DEF check_status_clear
<1>5. CASE report_walk
  <2>1. ASSUME NEW expired \in SUBSET Registered,
               NEW answering \in SUBSET Registered,
               NEW walked \in SUBSET Registered,
               NEW unsent \in SUBSET Registered,
               shadow_proc_report(expired, answering, walked, unsent),
               walked = Registered \/ unsent # {}
        PROVE  WakeInv'
    <3>1. pc' = "advance" => ~Unsent'
      BY <2>1, WalkLeavesNothing
    <3>2. /\ pc = "walk" /\ pc' \in {"top", "advance"}
          /\ UNCHANGED <<flags, sem, app, kernel>>
      BY <2>1 DEF shadow_proc_report, RoundResult
    <3> QED
      BY <3>1, <3>2
  <2>2. PICK expired, answering \in SUBSET Registered :
          \/ shadow_proc_report(expired, answering, Registered, {})
          \/ \E k \in Registered : \E walked \in SUBSET (Registered \ {k}) :
               shadow_proc_report(expired, answering, walked, {k})
    BY <1>5 DEF report_walk
  <2>3. CASE shadow_proc_report(expired, answering, Registered, {})
    <3>1. Registered \in SUBSET Registered /\ {} \in SUBSET Registered
      OBVIOUS
    <3> QED
      BY <2>1, <2>3, <3>1
  <2>4. ASSUME NEW k \in Registered, NEW walked \in SUBSET (Registered \ {k}),
               shadow_proc_report(expired, answering, walked, {k})
        PROVE  WakeInv'
    <3>1. /\ walked \in SUBSET Registered /\ {k} \in SUBSET Registered
          /\ {k} # {}
      OBVIOUS
    <3> QED
      BY <2>1, <2>4, <3>1
  <2> QED
    BY <2>2, <2>3, <2>4
<1>6. ASSUME NEW expired \in BOOLEAN, shadow_proc_sync(expired)
      PROVE  WakeInv'
  <2>1. g_shadow_status \in 1..3 /\ Statuses[g_shadow_status] = "sync"
    BY <1>6 DEF shadow_proc_sync, ShadowInv, ShadowTypeOK
  <2>2. g_shadow_status = 2
    BY <2>1 DEF Statuses
  <2>3. /\ pc = "walk" /\ pc' \in {"top", "advance"}
        /\ UNCHANGED <<g_shadow_status, flags, sem, app, kernel>>
    BY <1>6
    DEF shadow_proc_sync, query_given_up, query_sent, query_unsent
  <2> QED
    BY <2>2, <2>3
<1>7. CASE proc_do_advance
  <2>1. g_shadow_status \in 1..3
    BY DEF ShadowInv, ShadowTypeOK
  <2> QED
    BY <1>7, <2>1 DEF proc_do_advance, Unsent, Registered
<1> QED
  BY <1>1, <1>2, <1>3, <1>4, <1>5, <1>6, <1>7 DEF ShadowThread

\* Together: WakeInv is inductive relative to ShadowInv.
LEMMA WakeInductive ==
  ASSUME SemKeepsPost
  PROVE  ShadowInv /\ WakeInv /\ [ShNext]_vars => WakeInv'
<1> SUFFICES ASSUME ShadowInv, WakeInv, [ShNext]_vars PROVE WakeInv'
  OBVIOUS
<1>1. CASE UNCHANGED vars
  BY <1>1
  DEF vars, sharedVars, threadVars, treeVars, indexVars, WakeInv, Posted,
      Unsent, Registered
<1> QED
  BY <1>1, AppWakes, KernelWakes, ThreadStaysAwake DEF ShNext, News, Work

\* With a semaphore that keeps a post, the shadow thread sleeps only when
\* every property still to be reported has been sent and no event is left:
\* nothing that is pushed, refused or switched meanwhile is slept over.
THEOREM NeverSleepsOverWork ==
  ASSUME SemKeepsPost
  PROVE  ShSpec => []AsleepOnlyWhenDone
<1>1. Init => WakeInv
  BY WakeInit
<1>2. ShadowInv /\ WakeInv /\ [ShNext]_vars => WakeInv'
  BY WakeInductive
<1>3. WakeInv => AsleepOnlyWhenDone
  BY DEF WakeInv, AsleepOnlyWhenDone, ReportTriggered, Asleep, Posted, Unsent
<1> QED
  BY <1>1, <1>2, <1>3, ShadowInvariant, PTL DEF ShSpec
=============================================================================
