----------------------------- MODULE HubDevices -----------------------------
(***************************************************************************)
(* Sub-devices of a hub (component/hub: hub_func.c, hub_extern.c,          *)
(* ez_iot_hub.c).                                                          *)
(*                                                                         *)
(* The list of sub-devices is one value in flash, read, changed and        *)
(* written back under g_hlock.  A device is added unauthenticated; the     *)
(* platform's answer authenticates or deletes it.  Authenticated devices   *)
(* are registered with the thing model (TSL) and reported to the platform  *)
(* as a list.  Three threads work on this: one of the application, which   *)
(* calls the API, the yield thread, which brings answers and events, and   *)
(* the timer thread, which asks once again for those still unauthenticated.*)
(* A section under g_hlock is one step; what follows after the lock is     *)
(* released is another.  The hub is initialised before the connection is   *)
(* started, as the examples do with their modules.                         *)
(***************************************************************************)
EXTENDS Naturals, Sequences, FiniteSets

CONSTANTS Devs,        \* serial numbers
          Vers,        \* firmware versions
          NoDev, NoVer,
          ListMax,     \* COMPONENT_HUB_SUBLIST_MAX
          AddMax,      \* bound: calls that add a device
          UpdMax,      \* bound: calls that change version or status
          AskMax       \* bound: unanswered requests for one device

ASSUME HubAssumption ==
  /\ NoDev \notin Devs /\ NoVer \notin Vers
  /\ ListMax \in Nat \ {0} /\ {AddMax, UpdMax, AskMax} \subseteq Nat

VARIABLES list,     \* EZ_HUB_KEY_HUBLIST
          held,     \* g_hlock was left locked
          unauth,   \* g_unauth_count
          tsl,      \* version a device is registered with at the thing model
          asked,    \* authentication requests the platform has not answered
          plat,     \* the platform's relation list
          stale,    \* a report was lost, or the device has been restarted
          app,      \* thread of the application, inside the API
          yt,       \* yield thread, inside the hub's extension
          tm,       \* timer thread, inside auth_retry_timer_cb
          adds, upds

flash == <<list, held, unauth>>
threads == <<app, yt, tm>>
vars == <<flash, tsl, asked, plat, stale, threads, adds, upds>>

Item == [sn : Devs, access : BOOLEAN, ver : Vers, sta : BOOLEAN]
Absent == [ver |-> NoVer, sta |-> FALSE]
Idle == [at |-> "idle", dev |-> NoDev]
At(place) == [at |-> place, dev |-> NoDev]

(* find_dev_by_sn, hub_subdev_next.                                        *)
Listed(d) == \E i \in DOMAIN list : list[i].sn = d
Index(d) == CHOOSE i \in DOMAIN list : list[i].sn = d
Passed(d) == Listed(d) /\ list[Index(d)].access
Unauthenticated == {d \in Devs : Listed(d) /\ ~Passed(d)}

\* Fault: the walk returns the device it stands on.
NextDev_Sticks(d) ==
  LET from == IF d = NoDev THEN 1 ELSE IF Listed(d) THEN Index(d) ELSE Len(list) + 1
  IN  IF from <= Len(list) THEN list[from].sn ELSE NoDev

\* The device after d: none if d is the last or no longer listed.
NextDev(d) ==
  LET from == IF d = NoDev THEN 1 ELSE IF Listed(d) THEN Index(d) + 1 ELSE Len(list) + 1
  IN  IF from <= Len(list) THEN list[from].sn ELSE NoDev

\* bscJSON_DeleteItemFromArray: the items behind move up.
Without(d) ==
  [i \in 1..(Len(list) - 1) |-> list[IF i < Index(d) THEN i ELSE i + 1]]

\* subdev_to_relation_lst: authenticated devices only.
Relation ==
  [d \in Devs |-> IF Passed(d) THEN [ver |-> list[Index(d)].ver, sta |-> list[Index(d)].sta]
                             ELSE Absent]
\* subdev_to_status_lst names every device; the platform knows some of them.
Statuses ==
  [d \in Devs |-> IF Listed(d) /\ plat[d] # Absent
                    THEN [plat[d] EXCEPT !.sta = list[Index(d)].sta] ELSE plat[d]]

HubTypeOK ==
  /\ list \in Seq(Item) /\ Len(list) <= ListMax
  /\ \A i, j \in DOMAIN list : list[i].sn = list[j].sn => i = j
  /\ held \in BOOLEAN /\ stale \in BOOLEAN /\ unauth \in Nat
  /\ tsl \in [Devs -> Vers \cup {NoVer}]
  /\ asked \in [Devs -> 0..AskMax]
  /\ plat \in [Devs -> [ver : Vers \cup {NoVer}, sta : BOOLEAN]]
  /\ app \in [at : {"idle", "report", "sta_report", "unreg", "clear"}, dev : Devs \cup {NoDev}]
  /\ yt \in [at : {"idle", "report", "failure"}, dev : Devs \cup {NoDev}]
  /\ tm \in [at : {"armed", "retry", "over"}, dev : Devs \cup {NoDev}]
  /\ adds \in 0..AddMax /\ upds \in 0..UpdMax

Init ==
  /\ list = <<>> /\ held = FALSE /\ unauth = 0
  /\ tsl = [d \in Devs |-> NoVer] /\ asked = [d \in Devs |-> 0]
  /\ plat = [d \in Devs |-> Absent] /\ stale = TRUE
  /\ app = Idle /\ yt = Idle /\ tm = At("armed")
  /\ adds = 0 /\ upds = 0

-----------------------------------------------------------------------------
(* Calls into other components.                                            *)

\* ez_iot_tsl_adapter_add does nothing for a serial it knows.
TslReg(reg, d, v) == IF reg[d] = NoVer THEN [reg EXCEPT ![d] = v] ELSE reg
TslUnreg(reg, d) == [reg EXCEPT ![d] = NoVer]

\* hub_subdev_auth_do: the request reaches the platform or is lost; its
\* result is not looked at.
hub_subdev_auth_do(d) ==
  \/ asked[d] < AskMax /\ asked' = [asked EXCEPT ![d] = @ + 1]
  \/ UNCHANGED asked

-----------------------------------------------------------------------------
(* The API, in the application's thread.  A call that is refused, or that   *)
(* meets a storage error before it has written, changes nothing.            *)

\* Fault: a serial that is listed is added again.
hub_add_do_Twice(d, v) ==
  /\ adds < AddMax /\ adds' = adds + 1
  /\ Len(list) < ListMax
  /\ list' = Append(list, [sn |-> d, access |-> FALSE, ver |-> v, sta |-> FALSE])
  /\ unauth' = unauth + 1
  /\ hub_subdev_auth_do(d)
  /\ UNCHANGED <<held, tsl, plat, stale, threads, upds>>

hub_add_do(d, v) ==
  /\ adds < AddMax /\ adds' = adds + 1
  /\ ~Listed(d) /\ Len(list) < ListMax
  /\ list' = Append(list, [sn |-> d, access |-> FALSE, ver |-> v, sta |-> FALSE])
  /\ unauth' = unauth + 1
  /\ hub_subdev_auth_do(d)
  /\ UNCHANGED <<held, tsl, plat, stale, threads, upds>>

\* Fault: every deletion lowers the counter.
Deletes_CountsAll(d) ==
  /\ list' = Without(d)
  /\ unauth' = unauth - 1
  /\ tsl' = IF Passed(d) THEN TslUnreg(tsl, d) ELSE tsl
  /\ UNCHANGED <<held, asked, plat, stale, adds, upds>>

\* hub_del_do: only an authenticated device is taken from the thing model.
Deletes(d) ==
  /\ list' = Without(d)
  /\ unauth' = IF Passed(d) THEN unauth ELSE unauth - 1
  /\ tsl' = IF Passed(d) THEN TslUnreg(tsl, d) ELSE tsl
  /\ UNCHANGED <<held, asked, plat, stale, adds, upds>>

hub_del_do(d) ==
  /\ Listed(d) /\ Deletes(d)
  /\ app' = At("report") /\ UNCHANGED <<yt, tm>>

\* Fault: no report after a change of version.
hub_ver_update_do_Silent(d, v) ==
  /\ upds < UpdMax /\ upds' = upds + 1
  /\ Listed(d) /\ list' = [list EXCEPT ![Index(d)].ver = v]
  /\ tsl' = TslReg(TslUnreg(tsl, d), d, v)
  /\ UNCHANGED <<held, unauth, asked, plat, stale, threads, adds>>

\* Fault: the new version is registered before the old one goes.
hub_ver_update_do_RegFirst(d, v) ==
  /\ upds < UpdMax /\ upds' = upds + 1
  /\ Listed(d) /\ list' = [list EXCEPT ![Index(d)].ver = v]
  /\ tsl' = TslUnreg(TslReg(tsl, d, v), d)
  /\ app' = At("report")
  /\ UNCHANGED <<held, unauth, asked, plat, stale, yt, tm, adds>>

hub_ver_update_do(d, v) ==
  /\ upds < UpdMax /\ upds' = upds + 1
  /\ Listed(d) /\ list' = [list EXCEPT ![Index(d)].ver = v]
  /\ tsl' = TslReg(TslUnreg(tsl, d), d, v)
  /\ app' = At("report")
  /\ UNCHANGED <<held, unauth, asked, plat, stale, yt, tm, adds>>

hub_status_update_do(d, online) ==
  /\ upds < UpdMax /\ upds' = upds + 1
  /\ Listed(d) /\ list' = [list EXCEPT ![Index(d)].sta = online]
  /\ app' = At("sta_report")
  /\ UNCHANGED <<held, unauth, tsl, asked, plat, stale, yt, tm, adds>>

hub_clean_do ==
  /\ app' = At("unreg")
  /\ UNCHANGED <<flash, tsl, asked, plat, stale, yt, tm, adds, upds>>

HubCall ==
  /\ app = Idle /\ ~held
  /\ \E d \in Devs :
       \/ \E v \in Vers : hub_add_do(d, v) \/ hub_ver_update_do(d, v)
       \/ hub_del_do(d)
       \/ \E online \in BOOLEAN : hub_status_update_do(d, online)
       \/ hub_clean_do

\* hub_tsl_unreg_all: from one device to the next, the lock released in
\* between; an error of the storage ends the walk, not the clean-up.
hub_tsl_unreg_all ==
  /\ app.at = "unreg" /\ ~held
  /\ LET d == NextDev(app.dev) IN
       \/ /\ d # NoDev /\ app' = [at |-> "unreg", dev |-> d]
          /\ tsl' = IF Passed(d) THEN TslUnreg(tsl, d) ELSE tsl
       \/ app' = At("clear") /\ UNCHANGED tsl
  /\ UNCHANGED <<flash, asked, plat, stale, yt, tm, adds, upds>>

\* The rest of hub_clean_do: when the write fails, CHECK_COND_DONE jumps
\* over the unlock.
clean_write ==
  /\ app.at = "clear" /\ ~held
  /\ \/ list' = <<>> /\ app' = At("report") /\ UNCHANGED held
     \/ held' = TRUE /\ app' = Idle /\ UNCHANGED list
  /\ UNCHANGED <<unauth, tsl, asked, plat, stale, yt, tm, adds, upds>>

-----------------------------------------------------------------------------
(* Reports; the list is read and the message queued under the lock.         *)

hub_subdev_list_report ==
  \/ plat' = Relation /\ stale' = FALSE
  \/ stale' = TRUE /\ UNCHANGED plat

hub_subdev_sta_report ==
  \/ plat' = Statuses /\ UNCHANGED stale
  \/ stale' = TRUE /\ UNCHANGED plat

app_reports ==
  /\ ~held /\ app' = Idle
  /\ \/ app.at = "report" /\ hub_subdev_list_report
     \/ app.at = "sta_report" /\ hub_subdev_sta_report
  /\ UNCHANGED <<flash, tsl, asked, yt, tm, adds, upds>>

-----------------------------------------------------------------------------
(* The yield thread: start, online, switch of platform, answers.            *)

hub_extend_event_cb ==
  /\ yt = Idle /\ yt' = At("report")
  /\ UNCHANGED <<flash, tsl, asked, plat, stale, app, tm, adds, upds>>

yt_reports ==
  /\ ~held /\ yt.at = "report" /\ yt' = Idle
  /\ hub_subdev_list_report
  /\ UNCHANGED <<flash, tsl, asked, app, tm, adds, upds>>

Answered(d) ==
  /\ yt = Idle /\ asked[d] > 0 /\ asked' = [asked EXCEPT ![d] = @ - 1]
  /\ UNCHANGED <<held, unauth, plat, stale, app, tm, adds, upds>>

\* An answer for a device that is not listed, or that meets a storage error,
\* is dropped.
hub_subdev_auth_passed(d) ==
  /\ ~held /\ Answered(d)
  /\ \/ /\ Listed(d) /\ list' = [list EXCEPT ![Index(d)].access = TRUE]
        /\ tsl' = TslReg(tsl, d, list[Index(d)].ver)
        /\ yt' = At("report")
     \/ UNCHANGED <<list, tsl, yt>>

\* hub_subdev_query and the callback come first, hub_del_do takes the lock
\* again.
hub_subdev_auth_failure(d) ==
  /\ ~held /\ Answered(d)
  /\ yt' = [at |-> "failure", dev |-> d] /\ UNCHANGED <<list, tsl>>

failure_deletes ==
  /\ yt.at = "failure" /\ ~held
  /\ \/ Listed(yt.dev) /\ Deletes(yt.dev) /\ yt' = At("report")
     \/ yt' = Idle /\ UNCHANGED <<flash, tsl, asked, plat, stale, adds, upds>>
  /\ UNCHANGED <<app, tm>>

-----------------------------------------------------------------------------
(* The timer thread.  The timer is created with reload = false.             *)

\* Skipped without unauthenticated devices and while offline.
auth_retry_timer_cb ==
  /\ tm.at = "armed"
  /\ \/ unauth > 0 /\ tm' = At("retry")
     \/ tm' = At("over")
  /\ UNCHANGED <<flash, tsl, asked, plat, stale, app, yt, adds, upds>>

retry_next ==
  /\ tm.at = "retry" /\ ~held
  /\ LET d == NextDev(tm.dev) IN
       \/ /\ d # NoDev /\ tm' = [at |-> "retry", dev |-> d]
          /\ IF Passed(d) THEN UNCHANGED asked ELSE hub_subdev_auth_do(d)
       \/ tm' = At("over") /\ UNCHANGED asked
  /\ UNCHANGED <<flash, tsl, plat, stale, app, yt, adds, upds>>

-----------------------------------------------------------------------------
\* The device is restarted; hub_func_init reads the list from flash,
\* registers what is authenticated and arms the timer.
hub_func_init ==
  /\ held' = FALSE /\ stale' = TRUE
  /\ unauth' = Cardinality(Unauthenticated)
  /\ tsl' = [d \in Devs |-> IF Passed(d) THEN list[Index(d)].ver ELSE NoVer]
  /\ app' = Idle /\ yt' = Idle /\ tm' = At("armed")
  /\ UNCHANGED <<list, asked, plat, adds, upds>>

CallGoesOn == hub_tsl_unreg_all \/ clean_write \/ app_reports
Answers == \E d \in Devs : hub_subdev_auth_passed(d) \/ hub_subdev_auth_failure(d)
YieldGoesOn == yt_reports \/ failure_deletes
TimerThread == auth_retry_timer_cb \/ retry_next

Next ==
  \/ HubCall \/ CallGoesOn
  \/ hub_extend_event_cb \/ Answers \/ YieldGoesOn
  \/ TimerThread
  \/ hub_func_init

HubSpec == Init /\ [][Next]_vars

\* The application's and the timer's thread get processor time; reading
\* flash and queueing a message return at once.
HubLiveSpec == HubSpec /\ WF_vars(CallGoesOn) /\ WF_vars(TimerThread)

-----------------------------------------------------------------------------
\* When nobody is about to report, and no report was lost since, the
\* platform's relation list is the list of authenticated devices, whichever
\* threads changed the list and in which order they reported.
ReportCurrent ==
  app.at \notin {"report", "sta_report"} /\ yt.at # "report" /\ ~stale
    => plat = Relation

\* Every authenticated device is registered with the thing model, except
\* while hub_clean_do takes them away, or after it failed to erase the list.
AuthedRegistered ==
  app.at \notin {"unreg", "clear"} /\ ~held
    => \A d \in Devs : Passed(d) => tsl[d] # NoVer

\* g_unauth_count never falls below the number of unauthenticated devices:
\* the retry is not skipped while one waits.
CountCovers == Cardinality(Unauthenticated) <= unauth

\* A call of the API and a round of retries come to their end although the
\* yield thread deletes devices under the walk (hub_subdev_next); only the
\* lock left behind by hub_clean_do stops them.
WalksEnd ==
  /\ app # Idle ~> app = Idle \/ held
  /\ tm.at = "retry" ~> tm.at # "retry" \/ held

-----------------------------------------------------------------------------
(* The inductive invariant behind the three.                               *)

\* What a report of states needs to find, when no list is about to follow:
\* the platform's list names the authenticated devices in their versions.
StatusesSuffice ==
  app.at = "sta_report" /\ yt.at # "report" /\ ~stale
    => \A d \in Devs : IF Passed(d) THEN plat[d].ver = list[Index(d)].ver
                                   ELSE plat[d] = Absent

HubInv ==
  /\ HubTypeOK /\ ReportCurrent /\ StatusesSuffice /\ AuthedRegistered
  /\ IsFiniteSet(Unauthenticated) /\ CountCovers
=============================================================================
