----------------------------- MODULE ShadowCore -----------------------------
(***************************************************************************)
(* Property synchronisation: shadow_core.c, with the entry points of       *)
(* shadow.c, the kernel's callbacks of shadow_extern.c and the two senders *)
(* of shadow_func.c (src/ez_iot_sdk/src/component/shadow).                 *)
(*                                                                         *)
(* Three threads.  The application registers and pushes properties.  The   *)
(* yield thread delivers kernel events, receipts of reports and data of    *)
(* the platform.  The shadow thread walks the tree of nodes: first it      *)
(* reports, then it asks for desired values, then it reports changes, and  *)
(* with nothing left it waits for the semaphore, at most FORCE_SYNC_TIME.  *)
(* A walk holds the mutex from end to end; the flags and g_shadow_status   *)
(* are read without it.                                                    *)
(*                                                                         *)
(* One resource (node_index_t) with its properties, walked in any order.   *)
(* Of a report on its way the model keeps whether its sequence number is   *)
(* the msg_seq of the node, and whether its value is the one the device    *)
(* has now.  A running timer may have expired whenever it is looked at,    *)
(* and any property may have a callback that delivers its value.           *)
(***************************************************************************)
EXTENDS Naturals, Sequences

CONSTANTS Keys,           \* properties the application may use
          NoKey,
          RetryMax,       \* MAXIMUM_RETRY_TIMES of a query
          FlightMax,      \* bound: reports of a property without receipt
          SemKeepsPost    \* a post made while nobody waits is kept (freertos);
                          \* FALSE: it is lost (linux, mt7688)

ASSUME ShadowAssumption ==
  /\ NoKey \notin Keys
  /\ RetryMax \in Nat /\ FlightMax \in Nat
  /\ SemKeepsPost \in BOOLEAN

VARIABLES online,           \* ez_iot_is_online()
          flags,            \* g_need_reset, g_need_sync, g_need_report
          g_shadow_status,
          pc,               \* where the shadow thread is
          sem,              \* a post the next wait will find
          node,             \* node_key_t of each registered property
          need_sync, itimer, retry_count,     \* of the node_index_t
          asked,            \* a query has been sent
          flight,           \* reports of a property sent, oldest first
          app,              \* what the application's call has still to do
          kernel,           \* what the yield thread's callback has to do
          settled,          \* properties whose present value the platform in
                            \* charge has, or that had none to report
          owed              \* a switch of platform not yet acted upon

indexVars == <<need_sync, itimer, retry_count>>
treeVars == <<node, indexVars, asked>>
ghostVars == <<settled, owed>>
sharedVars == <<online, flags, sem>>
threadVars == <<pc, g_shadow_status>>
vars == <<sharedVars, threadVars, treeVars, flight, app, kernel, ghostVars>>

Statuses == <<"report", "sync", "chg">>      \* shadow_core_status_e
Flags == {"reset", "sync", "report"}
Registered == DOMAIN node

Messages == [awaited : BOOLEAN, current : BOOLEAN]
AppSteps == {"idle", "change", "read", "flag", "post"}

\* timer and cached: there is one, there is a json_value.
KeyNodes == [need_report : BOOLEAN, timer : BOOLEAN, cached : BOOLEAN]

ShadowTypeOK ==
  /\ online \in BOOLEAN /\ flags \subseteq Flags /\ sem \in BOOLEAN
  /\ pc \in {"top", "rest", "wait", "update", "clear", "walk", "advance"}
  /\ g_shadow_status \in 1..3
  /\ Registered \subseteq Keys /\ node \in [Registered -> KeyNodes]
  /\ need_sync \in BOOLEAN /\ itimer \in BOOLEAN /\ asked \in BOOLEAN
  /\ retry_count \in 0..RetryMax
  /\ flight \in [Keys -> Seq(Messages)]
  /\ \A k \in Keys : Len(flight[k]) <= FlightMax
  /\ app \in [step : AppSteps, key : Keys \cup {NoKey}]
  /\ kernel \in {"idle", "post", "up", "down"}
  /\ settled \subseteq Keys /\ owed \in BOOLEAN

Init ==
  /\ online = FALSE /\ flags = {} /\ sem = FALSE
  /\ pc = "top" /\ g_shadow_status = 1
  /\ node = [k \in {} |-> {}]
  /\ need_sync = FALSE /\ itimer = FALSE /\ retry_count = 0 /\ asked = FALSE
  /\ flight = [k \in Keys |-> <<>>]
  /\ app = [step |-> "idle", key |-> NoKey] /\ kernel = "idle"
  /\ settled = {} /\ owed = FALSE

\* hal_semaphore_post
Post == sem' = (SemKeepsPost \/ pc = "wait")

-----------------------------------------------------------------------------
(* The application: ez_iot_shadow_register_v3, ez_iot_shadow_push_v3 *)

NewNode == [need_report |-> TRUE, timer |-> FALSE, cached |-> FALSE]

\* Properties ks are added, or asked to be reported once more; the first one
\* brings the node_index_t, which is to be synchronised.
shadow_core_module_addv3(ks) ==
  /\ node' = [k \in Registered \cup ks |->
                IF k \notin Registered THEN NewNode
                ELSE IF k \in ks THEN [node[k] EXCEPT !.need_report = TRUE]
                ELSE node[k]]
  /\ need_sync' = (need_sync \/ Registered = {})
  /\ settled' = settled \ ks
  /\ UNCHANGED <<itimer, retry_count, asked>>

AppRests == <<threadVars, flight, kernel, online, owed>>

\* shadow_event_type_add is raised by the steps that follow.
register_v3(ks) ==
  /\ app.step = "idle"
  /\ shadow_core_module_addv3(ks)
  /\ app' = [step |-> "flag", key |-> NoKey]
  /\ UNCHANGED <<flags, sem, AppRests>>

\* A property nobody registered is registered first, without callbacks.
push_v3(k) ==
  /\ app.step = "idle"
  /\ \/ /\ k \in Registered
        /\ app' = [step |-> "change", key |-> k]
        /\ UNCHANGED <<treeVars, settled>>
     \/ /\ k \notin Registered
        /\ shadow_core_module_addv3({k})
        /\ app' = [step |-> "flag", key |-> k]
  /\ UNCHANGED <<flags, sem, AppRests>>

\* Fault: the receipt of an earlier report still counts.
Outdated_KeepsSeq(msg) == [msg EXCEPT !.current = FALSE]

\* Of a report on its way when the value changes: msg_seq = 0.
Outdated(msg) == [msg EXCEPT !.current = FALSE, !.awaited = FALSE]

\* The value is given, or left to the callback when it is to be reported.
shadow_core_propertie_changed(value) ==
  /\ app.step = "change"
  /\ node' = [node EXCEPT ![app.key] =
                [need_report |-> TRUE, timer |-> FALSE, cached |-> value]]
  /\ flight' = [flight EXCEPT ![app.key] =
                  [i \in DOMAIN @ |-> Outdated(@[i])]]
  /\ settled' = settled \ {app.key}
  /\ app' = [step |-> "read", key |-> NoKey]
  /\ UNCHANGED <<sharedVars, threadVars, indexVars, asked, kernel, owed>>

\* shadow_core_event_occured, case report: the status is read without lock.
event_report ==
  /\ app.step = "read"
  /\ app' = [app EXCEPT !.step =
               IF Statuses[g_shadow_status] = "sync" THEN "flag" ELSE "post"]
  /\ UNCHANGED <<flags, sem, treeVars, settled, AppRests>>

event_flag ==
  /\ app.step = "flag"
  /\ flags' = flags \cup {"report"}
  /\ app' = [app EXCEPT !.step = "post"]
  /\ UNCHANGED <<sem, treeVars, settled, AppRests>>

event_post ==
  /\ app.step = "post"
  /\ Post
  /\ app' = [app EXCEPT !.step = IF app.key = NoKey THEN "idle" ELSE "change"]
  /\ UNCHANGED <<flags, treeVars, settled, AppRests>>

-----------------------------------------------------------------------------
(* The yield thread: shadow_extern.c, then ez_kernel_event_notice *)

KernelRests == <<threadVars, app>>

\* Shadow_extend_event_cb raises the flag; the post, and what the event says
\* of the connection, follow.
event_cb(flag, says) ==
  /\ kernel = "idle"
  /\ flags' = flags \cup {flag}
  /\ kernel' = says
  /\ UNCHANGED <<online, sem, treeVars, flight, KernelRests>>

event_online == /\ ~online
                /\ event_cb("report", "up")
                /\ UNCHANGED ghostVars

event_break == event_cb("sync", "down") /\ UNCHANGED ghostVars

event_reconnect == /\ online
                   /\ event_cb("sync", "up")
                   /\ UNCHANGED ghostVars

\* Another platform: it knows none of the values.
event_switchover ==
  /\ event_cb("reset", "up")
  /\ settled' = {}
  /\ owed' = TRUE

\* hal_semaphore_post, then ez_iot_set_status.
event_notice ==
  /\ kernel # "idle"
  /\ Post
  /\ online' = CASE kernel = "up" -> TRUE
                 [] kernel = "down" -> FALSE
                 [] OTHER -> online
  /\ kernel' = "idle"
  /\ UNCHANGED <<flags, treeVars, flight, KernelRests, ghostVars>>

\* The sequence number of the receipt is the msg_seq of the node.
Answers(msg) == msg.awaited

\* shadow_reply2report: the receipt, good or bad, of the oldest report of k.
shadow_reply2report(k, ok) ==
  /\ kernel = "idle" /\ flight[k] # <<>>
  /\ flight' = [flight EXCEPT ![k] = Tail(@)]
  /\ IF Answers(Head(flight[k]))
     THEN /\ node' = [node EXCEPT ![k].need_report = @ /\ ~ok,
                                  ![k].cached = @ /\ ~ok, ![k].timer = FALSE]
          /\ settled' = IF ok /\ Head(flight[k]).current
                        THEN settled \cup {k} ELSE settled
     ELSE UNCHANGED <<node, settled>>
  /\ kernel' = "post"
  /\ UNCHANGED <<sharedVars, indexVars, asked, KernelRests, owed>>

\* A report of k is sent; the one k waits for has a good receipt.
report_sent(k) == Len(flight'[k]) > Len(flight[k])

receipt_in_time(k) ==
  flight[k] # <<>> /\ Answers(Head(flight[k])) /\ shadow_reply2report(k, TRUE)

\* The kernel lost the receipt (KernelSend shows where).
receipt_lost(k) ==
  /\ flight[k] # <<>>
  /\ flight' = [flight EXCEPT ![k] = Tail(@)]
  /\ UNCHANGED <<sharedVars, treeVars, KernelRests, kernel, ghostVars>>

\* shadow_reply2query: an answer, whatever it says, ends the synchronisation;
\* the callbacks of do_set are the application's.  Answers are not matched
\* with queries: from the first query on one may come, late, at any time.
shadow_reply2query ==
  /\ kernel = "idle" /\ asked
  /\ need_sync' = FALSE /\ itimer' = FALSE /\ retry_count' = 0
  /\ kernel' = "post"
  /\ UNCHANGED <<sharedVars, node, asked, flight, KernelRests, ghostVars>>

\* shadow_set2dev: any other data in only posts.
shadow_set2dev ==
  /\ kernel = "idle"
  /\ kernel' = "post"
  /\ UNCHANGED <<sharedVars, treeVars, flight, KernelRests, ghostVars>>

-----------------------------------------------------------------------------
(* The shadow thread: shadow_core_yeild *)

Others == <<online, app, kernel>>

\* while (g_running): "rest" is the top of the loop after a complete round.
yeild_top ==
  /\ pc \in {"top", "rest"} /\ online
  /\ pc' = IF pc = "rest" THEN "wait" ELSE "update"
  /\ UNCHANGED <<g_shadow_status, flags, sem, treeVars, flight>>
  /\ UNCHANGED <<Others, ghostVars>>

wait_posted ==
  /\ pc = "wait" /\ sem
  /\ pc' = "update" /\ sem' = FALSE
  /\ UNCHANGED <<g_shadow_status, flags, treeVars, flight>>
  /\ UNCHANGED <<Others, ghostVars>>

\* Every property is to be reported and the resource to be synchronised.
shadow_status_reset ==
  /\ node' = [k \in Registered |->
                [node[k] EXCEPT !.need_report = TRUE, !.timer = FALSE]]
  /\ need_sync' = (Registered # {}) /\ itimer' = FALSE
  /\ UNCHANGED <<retry_count, asked>>
  /\ settled' = {} /\ owed' = FALSE

shadow_status2sync ==
  /\ need_sync' = (Registered # {}) /\ itimer' = FALSE /\ retry_count' = 0
  /\ UNCHANGED <<node, asked, ghostVars>>

\* FORCE_SYNC_TIME has passed, with or without a post.
wait_timeout ==
  /\ pc = "wait"
  /\ pc' = "update" /\ sem' = FALSE
  /\ shadow_status_reset
  /\ UNCHANGED <<g_shadow_status, flags, flight, Others>>

\* check_status_update: the flags are looked at, the gravest one counts.
check_status_update ==
  /\ pc = "update"
  /\ pc' = IF flags = {} THEN "walk" ELSE "clear"
  /\ CASE "reset" \in flags -> shadow_status_reset
       [] "reset" \notin flags /\ "sync" \in flags -> shadow_status2sync
       [] OTHER -> UNCHANGED <<treeVars, ghostVars>>
  /\ UNCHANGED <<g_shadow_status, flags, sem, flight, Others>>

\* Its end, under the mutex: all of them are cleared.
check_status_clear ==
  /\ pc = "clear"
  /\ pc' = "walk"
  /\ flags' = {} /\ g_shadow_status' = 1
  /\ UNCHANGED <<sem, treeVars, flight, Others, ghostVars>>

\* Fault: a report that was sent is waited for whatever its age.
Waiting_Forever(k, expired) == node[k].need_report /\ node[k].timer

\* do_report leaves a report alone while its timer runs.
Waiting(k, expired) ==
  node[k].need_report /\ node[k].timer /\ k \notin expired

Due(k, expired) == node[k].need_report /\ ~Waiting(k, expired)

\* The value pushed, or the one the callback delivers.
HasValue(k, answering) == node[k].cached \/ k \in answering

\* A newer report takes the place of msg: its msg_seq is not the node's now.
Superseded(msg) == [awaited |-> FALSE, current |-> FALSE]

SendReport(msgs) ==
  Append([i \in DOMAIN msgs |-> Superseded(msgs[i])],
         [awaited |-> TRUE, current |-> TRUE])

\* What do_report makes of a node: sent, dropped, not sent, or nothing.
Reported(k, sent, dropped, unsent) ==
  CASE k \in sent -> [node[k] EXCEPT !.timer = TRUE]
    [] k \in dropped -> [node[k] EXCEPT !.timer = FALSE, !.need_report = FALSE]
    [] k \in unsent -> [node[k] EXCEPT !.timer = FALSE]
    [] OTHER -> node[k]

\* Fault: a report that could not be sent does not end the round.
RoundResult_IgnoresFailure(waiting, unsent) ==
  IF waiting # {} THEN "top" ELSE "advance"

\* proc_result 0 lets the round go on, -1 and 1 repeat it after a second.
RoundResult(waiting, unsent) ==
  IF waiting # {} \/ unsent # {} THEN "top" ELSE "advance"

\* shadow_proc_report, also for status chg: a walk that stops at the first
\* report that cannot be sent, after the properties in walked.
shadow_proc_report(expired, answering, walked, unsent) ==
  LET due == {k \in walked : Due(k, expired)}
      sent == {k \in due : HasValue(k, answering)}
      dropped == due \ sent
  IN /\ pc = "walk" /\ Statuses[g_shadow_status] \in {"report", "chg"}
     /\ \A k \in sent : Len(flight[k]) < FlightMax
     /\ \A k \in unsent : Due(k, expired) /\ HasValue(k, answering)
     /\ node' = [k \in Registered |-> Reported(k, sent, dropped, unsent)]
     /\ flight' = [k \in Keys |-> IF k \in sent THEN SendReport(flight[k])
                                 ELSE flight[k]]
     /\ settled' = settled \cup dropped
     /\ pc' = RoundResult({k \in walked : Waiting(k, expired)}, unsent)
     /\ UNCHANGED <<g_shadow_status, flags, sem, indexVars, asked>>
     /\ UNCHANGED <<Others, owed>>

\* A walk of the whole tree, or one ended by a property it could not send.
report_walk ==
  \E expired, answering \in SUBSET Registered :
    \/ shadow_proc_report(expired, answering, Registered, {})
    \/ \E k \in Registered : \E walked \in SUBSET (Registered \ {k}) :
         shadow_proc_report(expired, answering, walked, {k})

\* Fault: one query too many.
Exhausted_OneMore == retry_count > RetryMax

Exhausted == retry_count >= RetryMax

\* Fault: a query that cannot be sent is not counted.
query_unsent_Uncounted ==
  /\ itimer' = FALSE /\ pc' = "top"
  /\ UNCHANGED <<need_sync, retry_count, asked>>

query_unsent ==
  /\ retry_count' = retry_count + 1 /\ itimer' = FALSE /\ pc' = "top"
  /\ UNCHANGED <<need_sync, asked>>

query_sent ==
  /\ retry_count' = retry_count + 1 /\ itimer' = TRUE /\ pc' = "top"
  /\ asked' = TRUE
  /\ UNCHANGED need_sync

\* After RetryMax queries without an answer the desired values are forgone.
query_given_up ==
  /\ retry_count' = 0 /\ need_sync' = FALSE /\ itimer' = FALSE
  /\ pc' = "advance"
  /\ UNCHANGED asked

shadow_proc_sync(expired) ==
  /\ pc = "walk" /\ Statuses[g_shadow_status] = "sync"
  /\ \/ /\ ~need_sync
        /\ pc' = "advance"
        /\ UNCHANGED <<indexVars, asked>>
     \/ /\ need_sync /\ itimer /\ ~expired
        /\ pc' = "top"
        /\ UNCHANGED <<indexVars, asked>>
     \/ /\ need_sync /\ (itimer => expired)
        /\ IF Exhausted THEN query_given_up ELSE query_sent \/ query_unsent
  /\ UNCHANGED <<g_shadow_status, flags, sem, node, flight, Others, ghostVars>>

\* shadow_proc_do: the next status, or, after the last one, a rest.
proc_do_advance ==
  /\ pc = "advance"
  /\ pc' = IF g_shadow_status < 3 THEN "top" ELSE "rest"
  /\ g_shadow_status' = IF g_shadow_status < 3
                        THEN g_shadow_status + 1 ELSE g_shadow_status
  /\ UNCHANGED <<flags, sem, treeVars, flight, Others, ghostVars>>

-----------------------------------------------------------------------------
AppStart ==
  \/ \E ks \in SUBSET Keys \ {{}} : register_v3(ks)
  \/ \E k \in Keys : push_v3(k)

AppCompletes ==
  \/ \E value \in BOOLEAN : shadow_core_propertie_changed(value)
  \/ event_report
  \/ event_flag
  \/ event_post

LinkEvents == event_online \/ event_break \/ event_reconnect \/ event_switchover

ReportOver(k) ==
  receipt_lost(k) \/ \E ok \in BOOLEAN : shadow_reply2report(k, ok)

Receipts == \E k \in Keys : ReportOver(k)

DataIn == shadow_reply2query \/ shadow_set2dev

ShadowThread ==
  \/ yeild_top
  \/ wait_posted
  \/ wait_timeout
  \/ check_status_update
  \/ check_status_clear
  \/ report_walk
  \/ \E expired \in BOOLEAN : shadow_proc_sync(expired)
  \/ proc_do_advance

\* What comes from outside, and how the three threads deal with it.
News == AppStart \/ LinkEvents \/ DataIn

Work == AppCompletes \/ Receipts \/ event_notice \/ ShadowThread

ShNext == News \/ Work

ShSpec == Init /\ [][ShNext]_vars

(***************************************************************************)
(* Fairness: the threads run, calls return, and the kernel is done with    *)
(* every report it took (Settles of KernelSend).  In ShNetFairness a       *)
(* report attempted again and again is sent, its timer having expired, and *)
(* of reports repeated for ever some have their receipt in time, that is   *)
(* before they are repeated.                                               *)
(***************************************************************************)
ShFairness == /\ WF_vars(ShadowThread)
              /\ WF_vars(AppCompletes)
              /\ WF_vars(event_notice)
              /\ \A k \in Keys : WF_vars(ReportOver(k))

ShLiveSpec == ShSpec /\ ShFairness

ShNetFairness ==
  /\ SF_vars(shadow_proc_report(Registered, Registered, Registered, {}))
  /\ SF_vars(shadow_proc_sync(TRUE))
  /\ \A k \in Keys :
       []<><<report_sent(k)>>_vars => []<><<receipt_in_time(k)>>_vars

\* From some time on nothing new happens and the device stays online.
Quiet == <>[][~News]_vars /\ <>[]online

-----------------------------------------------------------------------------
\* A property with nothing to report is known to the platform in charge, or
\* had no value, or is going to be reported because the platform has been
\* switched: no receipt of an older report, late as it may be, settles a
\* newer value (msg_seq in shadow_core_propertie_changed).
ReportedOrDue ==
  \A k \in Registered : node[k].need_report \/ k \in settled \/ owed

\* The receipt a property waits for is that of a report of its present value.
AwaitedIsCurrent ==
  \A k \in Keys : \A i \in DOMAIN flight[k] :
    flight[k][i].awaited => flight[k][i].current

\* Both together are inductive.
ShadowInv == ShadowTypeOK /\ AwaitedIsCurrent /\ ReportedOrDue

\* The shadow thread waits, no post is on its way, no call in progress.
Asleep == pc = "wait" /\ ~sem /\ app.step = "idle" /\ kernel = "idle"

\* A change of a value triggers its report, says shadow_core.h:96: when the
\* shadow thread sleeps every property still to be reported has been sent,
\* only the receipt is missing.
ReportTriggered ==
  Asleep => \A k \in Registered : node[k].need_report => node[k].timer

\* Nor is any event left that raised a flag.  Both hold where the semaphore
\* keeps a post, although a failed report, a receipt, a change or an event
\* may come between any two steps of the thread.
AsleepOnlyWhenDone == ReportTriggered /\ (Asleep => flags = {})

\* Why: a property not sent once the last walk of a round is over, and a flag
\* the thread is not about to look at, have a post kept or still to come.
Posted == sem \/ app.step # "idle" \/ kernel # "idle"
Unsent == \E k \in Registered : node[k].need_report /\ ~node[k].timer

WakeInv ==
  /\ pc \in {"rest", "wait"} \/ (pc = "advance" /\ g_shadow_status = 3)
       => (Unsent => Posted)
  /\ pc \notin {"update", "clear"} => (flags # {} => Posted)

\* Once nothing new happens every value gets to the platform, although
\* receipts are lost and reports fail (the timer of node_key_t).
ChangesGetThrough ==
  Quiet /\ ShNetFairness =>
    []<>(\A k \in Registered : ~node[k].need_report)

\* Queries nobody answers do not keep the changes of properties from being
\* reported: the sync status is always left (retry_count).
SyncEnds ==
  Quiet /\ ShNetFairness => []<>(Statuses[g_shadow_status] = "chg")
=============================================================================
