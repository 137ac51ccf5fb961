-------------------------- MODULE ShadowCoreProof --------------------------
(***************************************************************************)
(* Theorems about ShadowCore, for every set of properties, every bound and *)
(* either semaphore.  ShadowInv is inductive; one lemma per actor shows    *)
(* that its steps preserve it, with one step per action.                   *)
(***************************************************************************)
EXTENDS ShadowCore, TLAPS

\* The bounds are not negative.
LEMMA Bounds == 0 <= FlightMax /\ 0 \in 0..RetryMax
  BY ShadowAssumption

\* Nothing is registered at first, nothing on its way.
LEMMA ShadowInit == Init => ShadowInv
<1> SUFFICES ASSUME Init PROVE ShadowInv
  OBVIOUS
<1>1. ShadowTypeOK
  <2>1. Registered = {} /\ node \in [Registered -> KeyNodes]
    BY DEF Init, Registered
  <2>2. flight \in [Keys -> Seq(Messages)] /\ \A k \in Keys : Len(flight[k]) = 0
    BY DEF Init
  <2>3. \A k \in Keys : Len(flight[k]) <= FlightMax
    BY <2>2, Bounds
  <2>4. app \in [step : AppSteps, key : Keys \cup {NoKey}]
    BY DEF Init, AppSteps
  <2>5. retry_count \in 0..RetryMax
    BY Bounds DEF Init
  <2>6. /\ online \in BOOLEAN /\ flags \subseteq Flags /\ sem \in BOOLEAN
        /\ pc = "top" /\ g_shadow_status = 1
        /\ need_sync \in BOOLEAN /\ itimer \in BOOLEAN /\ asked \in BOOLEAN
        /\ kernel = "idle"
        /\ settled \subseteq Keys /\ owed \in BOOLEAN
    BY DEF Init
  <2> QED
    BY <2>1, <2>2, <2>3, <2>4, <2>5, <2>6 DEF ShadowTypeOK
<1>2. AwaitedIsCurrent /\ ReportedOrDue
  BY DEF Init, AwaitedIsCurrent, ReportedOrDue, Registered
<1> QED
  BY <1>1, <1>2 DEF ShadowInv

\* A property added is marked for report and no longer settled.
LEMMA AddedIsMarked ==
  ASSUME ShadowInv, NEW ks \in SUBSET Keys, shadow_core_module_addv3(ks)
  PROVE  /\ Registered' = Registered \cup ks
         /\ node' \in [Registered' -> KeyNodes]
         /\ need_sync' \in BOOLEAN /\ settled' \subseteq Keys
         /\ \A k \in Registered' :
              node'[k].need_report \/ k \in settled' \/ owed
<1>1. Registered' = Registered \cup ks
  BY DEF shadow_core_module_addv3, Registered
<1>2. ASSUME NEW k \in Registered \cup ks
      PROVE  /\ node'[k] \in KeyNodes
             /\ node'[k].need_report \/ k \in settled' \/ owed
  <2>1. CASE k \notin Registered
    BY <1>2, <2>1 DEF shadow_core_module_addv3, NewNode, KeyNodes
  <2>2. CASE k \in Registered /\ k \in ks
    BY <1>2, <2>2
    DEF shadow_core_module_addv3, KeyNodes, ShadowInv, ShadowTypeOK
  <2>3. CASE k \in Registered /\ k \notin ks
    BY <1>2, <2>3 DEF shadow_core_module_addv3, ShadowInv, ShadowTypeOK,
                      ReportedOrDue
  <2> QED
    BY <1>2, <2>1, <2>2, <2>3
<1>3. node' \in [Registered' -> KeyNodes]
  <2>1. node' = [k \in Registered' |-> node'[k]]
    BY <1>1 DEF shadow_core_module_addv3
  <2> QED
    BY <1>1, <1>2, <2>1
<1> QED
  BY <1>1, <1>2, <1>3
  DEF shadow_core_module_addv3, ShadowInv, ShadowTypeOK

\* Calls of the application that begin.
LEMMA AppStartStep == ShadowInv /\ AppStart => ShadowInv'
<1> SUFFICES ASSUME ShadowInv, AppStart PROVE ShadowInv'
  OBVIOUS
<1> USE DEF AppRests, threadVars, treeVars, indexVars, AppSteps
<1>1. ASSUME NEW ks \in SUBSET Keys, register_v3(ks)
      PROVE  ShadowInv'
  <2>1. shadow_core_module_addv3(ks)
    BY <1>1 DEF register_v3
  <2>2. /\ Registered' \subseteq Keys
        /\ node' \in [Registered' -> KeyNodes]
        /\ need_sync' \in BOOLEAN /\ settled' \subseteq Keys
        /\ \A k \in Registered' :
             node'[k].need_report \/ k \in settled' \/ owed
    BY <2>1, AddedIsMarked DEF ShadowInv, ShadowTypeOK
  <2>3. ShadowTypeOK'
    <3>1. app' \in [step : AppSteps, key : Keys \cup {NoKey}]
      BY <1>1 DEF register_v3
    <3>2. UNCHANGED <<itimer, retry_count, asked, flags, sem, AppRests>>
      BY <1>1, <2>1 DEF register_v3, shadow_core_module_addv3
    <3> QED
      BY <2>2, <3>1, <3>2 DEF ShadowInv, ShadowTypeOK
  <2>4. ReportedOrDue'
    BY <1>1, <2>2 DEF register_v3, ReportedOrDue
  <2>5. AwaitedIsCurrent'
    BY <1>1 DEF register_v3, ShadowInv, AwaitedIsCurrent
  <2> QED
    BY <2>3, <2>4, <2>5 DEF ShadowInv
<1>2. ASSUME NEW k \in Keys, push_v3(k)
      PROVE  ShadowInv'
  <2>1. CASE /\ app' = [step |-> "change", key |-> k]
             /\ UNCHANGED <<treeVars, settled>>
    BY <1>2, <2>1 DEF push_v3, ShadowInv, ShadowTypeOK, AwaitedIsCurrent,
                      ReportedOrDue, Registered
  <2>2. CASE /\ shadow_core_module_addv3({k})
             /\ app' = [step |-> "flag", key |-> k]
    <3>1. /\ Registered' \subseteq Keys
          /\ node' \in [Registered' -> KeyNodes]
          /\ need_sync' \in BOOLEAN /\ settled' \subseteq Keys
          /\ \A key \in Registered' :
               node'[key].need_report \/ key \in settled' \/ owed
      <4>1. {k} \in SUBSET Keys
        OBVIOUS
      <4> QED
        BY <2>2, <4>1, AddedIsMarked DEF ShadowInv, ShadowTypeOK
    <3>2. ShadowTypeOK'
      <4>1. app' \in [step : AppSteps, key : Keys \cup {NoKey}]
        BY <2>2
      <4>2. UNCHANGED <<itimer, retry_count, asked, flags, sem, AppRests>>
        BY <1>2, <2>2 DEF push_v3, shadow_core_module_addv3
      <4> QED
        BY <3>1, <4>1, <4>2 DEF ShadowInv, ShadowTypeOK
    <3>3. ReportedOrDue'
      BY <1>2, <3>1 DEF push_v3, ReportedOrDue
    <3>4. AwaitedIsCurrent'
      BY <1>2 DEF push_v3, ShadowInv, AwaitedIsCurrent
    <3> QED
      BY <3>2, <3>3, <3>4 DEF ShadowInv
  <2> QED
    BY <1>2, <2>1, <2>2 DEF push_v3
<1> QED
  BY <1>1, <1>2 DEF AppStart

\* A new value is marked for report; no report on its way counts for it.
LEMMA ChangeStep ==
  ASSUME ShadowInv, NEW value \in BOOLEAN, shadow_core_propertie_changed(value)
  PROVE  ShadowInv'
<1> DEFINE key == app.key
           outdated == [i \in DOMAIN flight[key] |-> Outdated(flight[key][i])]
           changed == [need_report |-> TRUE, timer |-> FALSE, cached |-> value]
<1> USE DEF shadow_core_propertie_changed
<1>1. /\ node' = [node EXCEPT ![key] = changed]
      /\ flight' = [flight EXCEPT ![key] = outdated]
      /\ settled' = settled \ {key} /\ UNCHANGED owed
  OBVIOUS
<1>2. node \in [Registered -> KeyNodes] /\ flight \in [Keys -> Seq(Messages)]
  BY DEF ShadowInv, ShadowTypeOK
<1>3. Registered' = Registered
  BY <1>1, <1>2 DEF Registered
<1>4. node' \in [Registered -> KeyNodes]
  <2>1. changed \in KeyNodes
    BY DEF KeyNodes
  <2> QED
    BY <1>1, <1>2, <2>1
<1>5. ASSUME key \in Keys
      PROVE  /\ outdated \in Seq(Messages)
             /\ Len(outdated) = Len(flight[key])
             /\ DOMAIN outdated = DOMAIN flight[key]
             /\ \A i \in DOMAIN outdated : ~outdated[i].awaited
  <2>1. flight[key] \in Seq(Messages)
    BY <1>2, <1>5
  <2>2. ASSUME NEW msg \in Messages
        PROVE  Outdated(msg) \in Messages /\ ~Outdated(msg).awaited
    BY DEF Outdated, Messages
  <2> QED
    BY <2>1, <2>2
<1>6. flight' \in [Keys -> Seq(Messages)]
  BY <1>1, <1>2, <1>5
<1>7. \A k \in Keys : Len(flight'[k]) <= FlightMax
  BY <1>1, <1>2, <1>5 DEF ShadowInv, ShadowTypeOK
<1>8. ShadowTypeOK'
  BY <1>3, <1>4, <1>6, <1>7
  DEF ShadowInv, ShadowTypeOK, AppSteps, sharedVars, threadVars, indexVars
<1>9. AwaitedIsCurrent'
  BY <1>1, <1>2, <1>5 DEF ShadowInv, AwaitedIsCurrent
<1>10. ReportedOrDue'
  BY <1>1, <1>2, <1>3 DEF ShadowInv, ReportedOrDue
<1> QED
  BY <1>8, <1>9, <1>10 DEF ShadowInv

\* The rest of a call only raises a flag and posts.
LEMMA AppCompletesStep == ShadowInv /\ AppCompletes => ShadowInv'
<1> SUFFICES ASSUME ShadowInv, AppCompletes PROVE ShadowInv'
  OBVIOUS
<1> USE DEF ShadowInv, ShadowTypeOK, AwaitedIsCurrent, ReportedOrDue,
            Registered, AppRests, threadVars, treeVars, indexVars, AppSteps,
            Flags
<1>1. CASE \E value \in BOOLEAN : shadow_core_propertie_changed(value)
  BY <1>1, ChangeStep
<1>2. CASE event_report
  <2>1. app' \in [step : AppSteps, key : Keys \cup {NoKey}]
    BY <1>2 DEF event_report
  <2> QED
    BY <1>2, <2>1 DEF event_report
<1>3. CASE event_flag
  <2>1. app' \in [step : AppSteps, key : Keys \cup {NoKey}]
    BY <1>3 DEF event_flag
  <2> QED
    BY <1>3, <2>1 DEF event_flag
<1>4. CASE event_post
  <2>1. app' \in [step : AppSteps, key : Keys \cup {NoKey}]
    BY <1>4 DEF event_post
  <2>2. sem' \in BOOLEAN
    BY <1>4, ShadowAssumption DEF event_post, Post
  <2> QED
    BY <1>4, <2>1, <2>2 DEF event_post
<1> QED
  BY <1>1, <1>2, <1>3, <1>4 DEF AppCompletes

\* Events of the kernel, and the notice that ends their handling.
LEMMA LinkStep == ShadowInv /\ (LinkEvents \/ event_notice) => ShadowInv'
<1> SUFFICES ASSUME ShadowInv, LinkEvents \/ event_notice PROVE ShadowInv'
  OBVIOUS
<1> USE DEF ShadowInv, ShadowTypeOK, AwaitedIsCurrent, ReportedOrDue,
            Registered, KernelRests, threadVars, treeVars, indexVars,
            ghostVars, Flags
<1>1. CASE event_online
  BY <1>1 DEF event_online, event_cb
<1>2. CASE event_break
  BY <1>2 DEF event_break, event_cb
<1>3. CASE event_reconnect
  BY <1>3 DEF event_reconnect, event_cb
<1>4. CASE event_switchover
  BY <1>4 DEF event_switchover, event_cb
<1>5. CASE event_notice
  <2>1. sem' \in BOOLEAN
    BY <1>5, ShadowAssumption DEF event_notice, Post
  <2>2. online' \in BOOLEAN
    BY <1>5 DEF event_notice
  <2> QED
    BY <1>5, <2>1, <2>2 DEF event_notice
<1> QED
  BY <1>1, <1>2, <1>3, <1>4, <1>5 DEF LinkEvents

\* Answers to queries, and other data of the platform.
LEMMA DataInStep == ShadowInv /\ DataIn => ShadowInv'
<1> SUFFICES ASSUME ShadowInv, DataIn PROVE ShadowInv'
  OBVIOUS
<1> USE DEF ShadowInv, ShadowTypeOK, AwaitedIsCurrent, ReportedOrDue,
            Registered, KernelRests, threadVars, treeVars, indexVars,
            ghostVars, sharedVars
<1>1. CASE shadow_reply2query
  BY <1>1, Bounds DEF shadow_reply2query
<1>2. CASE shadow_set2dev
  BY <1>2 DEF shadow_set2dev
<1> QED
  BY <1>1, <1>2 DEF DataIn

\* The oldest report of k leaves the messages on their way as they are.
LEMMA ReportLeaves ==
  ASSUME ShadowInv, NEW k \in Keys, flight[k] # <<>>,
         flight' = [flight EXCEPT ![k] = Tail(@)]
  PROVE  /\ flight' \in [Keys -> Seq(Messages)]
         /\ \A key \in Keys : Len(flight'[key]) <= FlightMax
         /\ AwaitedIsCurrent'
         /\ Head(flight[k]) \in Messages
         /\ Head(flight[k]).awaited => Head(flight[k]).current
<1>1. flight \in [Keys -> Seq(Messages)]
  BY DEF ShadowInv, ShadowTypeOK
<1>2. /\ Tail(flight[k]) \in Seq(Messages)
      /\ Len(Tail(flight[k])) = Len(flight[k]) - 1
      /\ \A i \in DOMAIN Tail(flight[k]) :
           i + 1 \in DOMAIN flight[k] /\ Tail(flight[k])[i] = flight[k][i + 1]
      /\ 1 \in DOMAIN flight[k] /\ Head(flight[k]) = flight[k][1]
  BY <1>1
<1>3. flight' \in [Keys -> Seq(Messages)]
  BY <1>1, <1>2
<1>4. \A key \in Keys : Len(flight'[key]) <= FlightMax
  <2> SUFFICES ASSUME NEW key \in Keys PROVE Len(flight'[key]) <= FlightMax
    OBVIOUS
  <2>1. Len(flight[key]) <= FlightMax /\ Len(flight[key]) \in Nat
    BY <1>1 DEF ShadowInv, ShadowTypeOK
  <2>2. CASE key = k
    BY <1>1, <1>2, <2>1, <2>2, ShadowAssumption
  <2>3. CASE key # k
    BY <1>1, <2>1, <2>3
  <2> QED
    BY <2>2, <2>3
<1>5. AwaitedIsCurrent'
  BY <1>1, <1>2 DEF ShadowInv, AwaitedIsCurrent
<1> QED
  BY <1>1, <1>2, <1>3, <1>4, <1>5 DEF ShadowInv, AwaitedIsCurrent

\* A receipt clears the mark of a property only for its present value, which
\* the platform then has; a lost receipt changes nothing.
LEMMA ReceiptStep == ShadowInv /\ Receipts => ShadowInv'
<1> SUFFICES ASSUME ShadowInv, Receipts PROVE ShadowInv'
  OBVIOUS
<1> USE DEF KernelRests, threadVars, treeVars, indexVars, ghostVars, sharedVars
<1>1. ASSUME NEW k \in Keys, receipt_lost(k)
      PROVE  ShadowInv'
  <2>1. /\ flight' \in [Keys -> Seq(Messages)]
        /\ \A key \in Keys : Len(flight'[key]) <= FlightMax
        /\ AwaitedIsCurrent'
    BY <1>1, ReportLeaves DEF receipt_lost
  <2> QED
    BY <1>1, <2>1
    DEF receipt_lost, ShadowInv, ShadowTypeOK, ReportedOrDue, Registered
<1>2. ASSUME NEW k \in Keys, NEW ok \in BOOLEAN, shadow_reply2report(k, ok)
      PROVE  ShadowInv'
  <2>1. /\ flight' \in [Keys -> Seq(Messages)]
        /\ \A key \in Keys : Len(flight'[key]) <= FlightMax
        /\ AwaitedIsCurrent'
        /\ Head(flight[k]).awaited => Head(flight[k]).current
    BY <1>2, ReportLeaves DEF shadow_reply2report
  <2>2. CASE ~Answers(Head(flight[k]))
    BY <1>2, <2>1, <2>2 DEF shadow_reply2report, ShadowInv, ShadowTypeOK,
                            ReportedOrDue, Registered
  <2>3. CASE Answers(Head(flight[k]))
    <3>1. /\ node' = [node EXCEPT ![k] =
                        [node[k] EXCEPT !.need_report = @ /\ ~ok,
                                        !.cached = @ /\ ~ok, !.timer = FALSE]]
          /\ settled' = IF ok THEN settled \cup {k} ELSE settled
      BY <1>2, <2>1, <2>3 DEF shadow_reply2report, Answers
    <3>2. node \in [Registered -> KeyNodes]
      BY DEF ShadowInv, ShadowTypeOK
    <3>3. Registered' = Registered
      BY <3>1, <3>2 DEF Registered
    <3>4. node' \in [Registered -> KeyNodes]
      BY <3>1, <3>2 DEF KeyNodes
    <3>5. ShadowTypeOK'
      BY <1>2, <2>1, <3>1, <3>3, <3>4
      DEF shadow_reply2report, ShadowInv, ShadowTypeOK
    <3>6. ReportedOrDue'
      <4> SUFFICES ASSUME NEW key \in Registered
                   PROVE  node'[key].need_report \/ key \in settled' \/ owed'
        BY <3>3 DEF ReportedOrDue
      <4>1. node[key].need_report \/ key \in settled \/ owed
        BY DEF ShadowInv, ReportedOrDue
      <4>2. CASE key = k /\ ok
        BY <3>1, <4>2
      <4>3. CASE ~(key = k /\ ok)
        <5>1. node'[key].need_report = node[key].need_report
          BY <3>1, <3>2, <4>3 DEF KeyNodes
        <5> QED
          BY <1>2, <3>1, <4>1, <5>1 DEF shadow_reply2report
      <4> QED
        BY <4>2, <4>3
    <3> QED
      BY <2>1, <3>5, <3>6 DEF ShadowInv
  <2> QED
    BY <2>2, <2>3
<1> QED
  BY <1>1, <1>2 DEF Receipts, ReportOver

\* A reset marks every property for report.
LEMMA ResetMarksAll ==
  ASSUME ShadowInv, shadow_status_reset
  PROVE  /\ Registered' = Registered
         /\ node' \in [Registered -> KeyNodes]
         /\ \A k \in Registered : node'[k].need_report
         /\ need_sync' \in BOOLEAN /\ itimer' = FALSE
         /\ UNCHANGED <<retry_count, asked>>
         /\ settled' = {} /\ owed' = FALSE
<1>1. node' = [k \in Registered |->
                 [node[k] EXCEPT !.need_report = TRUE, !.timer = FALSE]]
  BY DEF shadow_status_reset
<1>2. Registered' = Registered
  BY <1>1 DEF Registered
<1>3. ASSUME NEW n \in KeyNodes
      PROVE  LET m == [n EXCEPT !.need_report = TRUE, !.timer = FALSE]
             IN  m \in KeyNodes /\ m.need_report
  BY DEF KeyNodes
<1>4. node \in [Registered -> KeyNodes]
  BY DEF ShadowInv, ShadowTypeOK
<1>5. /\ node' \in [Registered -> KeyNodes]
      /\ \A k \in Registered : node'[k].need_report
  BY <1>1, <1>3, <1>4
<1> QED
  BY <1>2, <1>5 DEF shadow_status_reset

\* A report that is sent takes the place of the earlier ones.
LEMMA SentTakesPlace ==
  ASSUME NEW msgs \in Seq(Messages)
  PROVE  /\ SendReport(msgs) \in Seq(Messages)
         /\ Len(SendReport(msgs)) = Len(msgs) + 1
         /\ \A i \in DOMAIN SendReport(msgs) :
              SendReport(msgs)[i].awaited => SendReport(msgs)[i].current
<1> DEFINE old == [i \in DOMAIN msgs |-> Superseded(msgs[i])]
           new == [awaited |-> TRUE, current |-> TRUE]
<1>1. old \in Seq(Messages) /\ Len(old) = Len(msgs)
  <2>1. ASSUME NEW msg \in Messages PROVE Superseded(msg) \in Messages
    BY DEF Superseded, Messages
  <2> QED
    BY <2>1
<1>2. \A i \in 1..Len(old) : ~old[i].awaited
  BY DEF Superseded
<1>3. new \in Messages /\ new.current
  BY DEF Messages
<1>4. SendReport(msgs) = Append(old, new)
  BY DEF SendReport
<1> HIDE DEF old, new
<1>5. /\ Append(old, new) \in Seq(Messages)
      /\ Len(Append(old, new)) = Len(old) + 1
      /\ \A i \in 1..Len(old) : Append(old, new)[i] = old[i]
      /\ Append(old, new)[Len(old) + 1] = new
      /\ DOMAIN Append(old, new) = 1..Len(old) + 1
  BY <1>1, <1>3
<1>6. \A i \in 1..Len(old) + 1 : i \in 1..Len(old) \/ i = Len(old) + 1
  BY <1>1
<1> QED
  BY <1>1, <1>2, <1>3, <1>4, <1>5, <1>6

\* A walk that reports clears the mark only of a property without a value.
LEMMA ReportWalkStep ==
  ASSUME ShadowInv, NEW expired \in SUBSET Registered,
         NEW answering \in SUBSET Registered,
         NEW walked \in SUBSET Registered, NEW unsent \in SUBSET Registered,
         shadow_proc_report(expired, answering, walked, unsent)
  PROVE  ShadowInv'
<1> DEFINE due == {k \in walked : Due(k, expired)}
           sent == {k \in due : HasValue(k, answering)}
           dropped == due \ sent
<1>1. /\ \A k \in sent : Len(flight[k]) < FlightMax
      /\ node' = [k \in Registered |-> Reported(k, sent, dropped, unsent)]
      /\ flight' = [k \in Keys |-> IF k \in sent THEN SendReport(flight[k])
                                  ELSE flight[k]]
      /\ settled' = settled \cup dropped
      /\ pc' \in {"top", "advance"}
      /\ UNCHANGED <<g_shadow_status, flags, sem, indexVars, asked>>
      /\ UNCHANGED <<Others, owed>>
  BY DEF shadow_proc_report, RoundResult
<1>2. /\ sent \subseteq Registered /\ dropped \subseteq Registered
      /\ Registered \subseteq Keys
  BY DEF ShadowInv, ShadowTypeOK
<1> HIDE DEF due, sent, dropped
<1>3. Registered' = Registered
  BY <1>1 DEF Registered
<1>4. node \in [Registered -> KeyNodes] /\ flight \in [Keys -> Seq(Messages)]
  BY DEF ShadowInv, ShadowTypeOK
<1>5. ASSUME NEW k \in Registered
      PROVE  /\ Reported(k, sent, dropped, unsent) \in KeyNodes
             /\ \/ Reported(k, sent, dropped, unsent).need_report
                                                     = node[k].need_report
                \/ k \in dropped
  <2>1. node[k] \in KeyNodes
    BY <1>4
  <2> QED
    BY <2>1 DEF Reported, KeyNodes
<1>6. node' \in [Registered -> KeyNodes]
  BY <1>1, <1>5
<1>7. flight' \in [Keys -> Seq(Messages)]
  BY <1>1, <1>4, SentTakesPlace
<1>8. \A k \in Keys : Len(flight'[k]) <= FlightMax
  <2> SUFFICES ASSUME NEW k \in Keys PROVE Len(flight'[k]) <= FlightMax
    OBVIOUS
  <2>1. CASE k \in sent
    BY <1>1, <1>4, <2>1, SentTakesPlace, ShadowAssumption
  <2>2. CASE k \notin sent
    BY <1>1, <2>2 DEF ShadowInv, ShadowTypeOK
  <2> QED
    BY <2>1, <2>2
<1>9. ShadowTypeOK'
  BY <1>1, <1>2, <1>3, <1>6, <1>7, <1>8
  DEF ShadowInv, ShadowTypeOK, indexVars, Others
<1>10. AwaitedIsCurrent'
  <2> SUFFICES ASSUME NEW k \in Keys, NEW i \in DOMAIN flight'[k]
               PROVE  flight'[k][i].awaited => flight'[k][i].current
    BY DEF AwaitedIsCurrent
  <2>1. CASE k \in sent
    BY <1>1, <1>4, <2>1, SentTakesPlace
  <2>2. CASE k \notin sent
    BY <1>1, <2>2 DEF ShadowInv, AwaitedIsCurrent
  <2> QED
    BY <2>1, <2>2
<1>11. ReportedOrDue'
  BY <1>1, <1>3, <1>5 DEF ShadowInv, ReportedOrDue
<1> QED
  BY <1>9, <1>10, <1>11 DEF ShadowInv

\* A query is counted up to RetryMax.
LEMMA SyncStep ==
  ASSUME ShadowInv, NEW expired \in BOOLEAN, shadow_proc_sync(expired)
  PROVE  ShadowInv'
<1>1. /\ need_sync' \in BOOLEAN /\ itimer' \in BOOLEAN /\ asked' \in BOOLEAN
      /\ retry_count' \in 0..RetryMax
      /\ pc' \in {"top", "advance"}
  <2> USE DEF ShadowInv, ShadowTypeOK, indexVars
  <2>1. CASE UNCHANGED <<indexVars, asked>> /\ pc' \in {"top", "advance"}
    BY <2>1
  <2>2. CASE query_given_up
    BY <2>2, Bounds DEF query_given_up, shadow_proc_sync
  <2>3. CASE ~Exhausted /\ (query_sent \/ query_unsent)
    <3>1. retry_count \in 0..RetryMax
      OBVIOUS
    <3>2. retry_count + 1 \in 0..RetryMax
      BY <2>3, <3>1, ShadowAssumption DEF Exhausted
    <3> QED
      BY <2>3, <3>2 DEF query_sent, query_unsent, shadow_proc_sync
  <2> QED
    BY <2>1, <2>2, <2>3 DEF shadow_proc_sync
<1> QED
  BY <1>1 DEF shadow_proc_sync, ShadowInv, ShadowTypeOK, AwaitedIsCurrent,
              ReportedOrDue, Registered, Others, ghostVars

\* No step of the shadow thread breaks it either.
LEMMA ShadowThreadStep == ShadowInv /\ ShadowThread => ShadowInv'
<1> SUFFICES ASSUME ShadowInv, ShadowThread PROVE ShadowInv'
  OBVIOUS
<1> USE DEF ShadowInv, ShadowTypeOK, AwaitedIsCurrent, ReportedOrDue,
            treeVars, indexVars, ghostVars, Others
<1>1. CASE yeild_top
  BY <1>1 DEF yeild_top, Registered
<1>2. CASE wait_posted
  BY <1>2 DEF wait_posted, Registered
<1>3. CASE wait_timeout
  BY <1>3, ResetMarksAll DEF wait_timeout
<1>4. CASE check_status_update
  <2>1. /\ pc' \in {"walk", "clear"}
        /\ UNCHANGED <<g_shadow_status, flags, sem, flight, online, app, kernel>>
    BY <1>4 DEF check_status_update
  <2>2. CASE shadow_status_reset
    BY <2>1, <2>2, ResetMarksAll
  <2>3. CASE shadow_status2sync
    BY <2>1, <2>3, Bounds DEF shadow_status2sync, Registered
  <2>4. CASE UNCHANGED <<treeVars, ghostVars>>
    BY <2>1, <2>4 DEF Registered
  <2> QED
    BY <1>4, <2>2, <2>3, <2>4 DEF check_status_update
<1>5. CASE check_status_clear
  BY <1>5 DEF check_status_clear, Registered
<1>6. CASE report_walk
  <2>1. {} \in SUBSET Registered
    OBVIOUS
  <2>2. Registered \in SUBSET Registered
    OBVIOUS
  <2>3. PICK expired, answering \in SUBSET Registered :
          \/ shadow_proc_report(expired, answering, Registered, {})
          \/ \E k \in Registered : \E walked \in SUBSET (Registered \ {k}) :
               shadow_proc_report(expired, answering, walked, {k})
    BY <1>6 DEF report_walk
  <2>4. CASE shadow_proc_report(expired, answering, Registered, {})
    BY <2>1, <2>2, <2>4, ReportWalkStep
  <2>5. ASSUME NEW k \in Registered, NEW walked \in SUBSET (Registered \ {k}),
               shadow_proc_report(expired, answering, walked, {k})
        PROVE  ShadowInv'
    <3>1. walked \in SUBSET Registered /\ {k} \in SUBSET Registered
      OBVIOUS
    <3> QED
      BY <2>5, <3>1, ReportWalkStep
  <2> QED
    BY <2>3, <2>4, <2>5
<1>7. CASE \E expired \in BOOLEAN : shadow_proc_sync(expired)
  BY <1>7, SyncStep
<1>8. CASE proc_do_advance
  BY <1>8 DEF proc_do_advance, Registered
<1> QED
  BY <1>1, <1>2, <1>3, <1>4, <1>5, <1>6, <1>7, <1>8 DEF ShadowThread

\* No step of any thread breaks the invariant.
LEMMA ShadowInductive == ShadowInv /\ [ShNext]_vars => ShadowInv'
<1> SUFFICES ASSUME ShadowInv, [ShNext]_vars PROVE ShadowInv'
  OBVIOUS
<1>1. CASE UNCHANGED vars
  BY <1>1 DEF vars, sharedVars, threadVars, treeVars, indexVars, ghostVars,
              ShadowInv, ShadowTypeOK, AwaitedIsCurrent, ReportedOrDue,
              Registered
<1> QED
  BY <1>1, AppStartStep, AppCompletesStep, LinkStep, DataInStep, ReceiptStep,
     ShadowThreadStep
  DEF ShNext, News, Work

\* ShadowInv holds in every reachable state, whichever thread moves.
THEOREM ShadowInvariant == ShSpec => []ShadowInv
<1> QED
  BY ShadowInit, ShadowInductive, PTL DEF ShSpec

\* Counters, flags and messages stay within their ranges.
THEOREM ShadowTypeCorrect == ShSpec => []ShadowTypeOK
<1>1. ShadowInv => ShadowTypeOK
  BY DEF ShadowInv
<1> QED
  BY <1>1, ShadowInvariant, PTL

\* The core of property synchronisation: what is not marked for report is
\* known to the platform in charge, whatever receipts come late or get lost
\* and however often values change.
THEOREM NothingForgotten == ShSpec => []ReportedOrDue
<1>1. ShadowInv => ReportedOrDue
  BY DEF ShadowInv
<1> QED
  BY <1>1, ShadowInvariant, PTL
=============================================================================
